---- MODULE Spec2Model ----
(***************************************************************************)
(* A model of hppdauto.py: the name normalizer, the facility matcher, the  *)
(* template and report extractors and run_hppd_comparison_for_date.        *)
(*                                                                         *)
(* Text is a sequence of one-character strings (<<"o","a","k">>), so that  *)
(* lower-casing, the regular-expression substitutions and difflib's        *)
(* similarity ratio are computed character by character.  The only         *)
(* whitespace character of the model's alphabets is the space.             *)
(* Numbers: hours and census are integers; every value the code rounds to  *)
(* two decimals is kept in hundredths (3.15 is 315).  The input sets hold  *)
(* no quotient that lies exactly between two hundredths.                   *)
(***************************************************************************)
EXTENDS Integers, Sequences, FiniteSets, TLC

VARIABLES
    \* ---- harness of the pure functions (SpecCore, SpecMatch, ...) ----
    call,       \* which function the harness applies ("none" in a run)
    arg,        \* its argument(s)
    returned,   \* whether it has returned
    ret,        \* its return value
    \* ---- the inputs of one run_hppd_comparison_for_date call ----
    target_date,        \* the target_date argument
    templates_exists,   \* whether templates_folder exists
    reports_exists,     \* whether reports_folder exists
    templates_dir,      \* the files under templates_folder, in walk order
    reports_dir,        \* the files under reports_folder, in walk order
    \* ---- the locals of run_hppd_comparison_for_date ----
    pc,                 \* "idle", "start", "templates", "map", "collect", "reports",
                        \* "matching", "save", "saved", "done", "raised"
    template_files,
    nextT,              \* index of the next result of executor.map over template_files
    template_entries,
    skipped_templates,
    template_map,
    report_files,
    nextR,              \* index of the next result of ex.map over report_files
    report_data_list,
    skipped_reports,
    nextM,              \* index of the next report_data of the matching loop
    results,            \* the results dict, in insertion order: <<[key, rows], ...>>
    wb,                 \* the output Workbook being built
    \* ---- outside the call ----
    comparison_debug_log,   \* the module-level dict
    progress_log,           \* the percentages handed to progress_callback
    output,                 \* the saved output workbook, or NoWorkbook
    error,                  \* the exception that left the call, or "none"
    \* ---- history ----
    provenance,         \* for each key of results, the template file and report
                        \* file its rows were built from
    \* ---- the thread pools (SpecPool) ----
    tasks,              \* the tasks handed to executor.map, in submission order
    shared_writes,      \* history: the writes to module-level state, each with its
                        \* writer and the tasks running at the time
    \* ---- the process ----
    invocation,         \* the number of the run_hppd_comparison_for_date call in
                        \* this process that the run variables belong to
    \* ---- the web application (app.py) ----
    progress_store,     \* the module-level dict progress_id -> entry
    jobs                \* the process_files threads started so far, each with its
                        \* position and, as history, what it wrote

fnVars == <<call, arg, returned, ret>>

inputVars == <<target_date, templates_exists, reports_exists, templates_dir, reports_dir>>

runVars == <<pc, template_files, nextT, template_entries, skipped_templates,
             template_map, report_files, nextR, report_data_list, skipped_reports,
             nextM, results, wb, comparison_debug_log, progress_log, output, error,
             provenance>>

poolVars == <<tasks, shared_writes>>

processVars == <<invocation>>

appVars == <<progress_store, jobs>>

vars == <<fnVars, inputVars, runVars, poolVars, processVars, appVars>>

NoWorkbook == [saved |-> FALSE]

\* no run in progress: the state of the run variables under the harness
RunIdle ==
    /\ target_date = ""
    /\ templates_exists = FALSE
    /\ reports_exists = FALSE
    /\ templates_dir = <<>>
    /\ reports_dir = <<>>
    /\ pc = "idle"
    /\ template_files = <<>>
    /\ nextT = 1
    /\ template_entries = <<>>
    /\ skipped_templates = <<>>
    /\ template_map = <<>>
    /\ report_files = <<>>
    /\ nextR = 1
    /\ report_data_list = <<>>
    /\ skipped_reports = <<>>
    /\ nextM = 1
    /\ results = <<>>
    /\ wb = NoWorkbook
    /\ comparison_debug_log = <<>>
    /\ progress_log = <<>>
    /\ output = NoWorkbook
    /\ error = "none"
    /\ provenance = <<>>
    /\ tasks = <<>>
    /\ shared_writes = <<>>
    /\ invocation = 1
    /\ progress_store = <<>>
    /\ jobs = <<>>

\* ------------------------------------------------------------------ bounds
MaxCoreLen == 2      \* longest generated facility name N in SpecCore
MaxRawLen == 3       \* longest raw report name in SpecMatch
MaxFacLen == 1       \* longest template facility name in SpecMatch
MaxMapEntries == 2   \* most template entries behind a name map in SpecMatch

\* ------------------------------------------------------------------ text
Range(s) == {s[i] : i \in 1..Len(s)}

UpperCh == <<"A","B","C","D","E","F","G","H","I","J","K","L","M",
             "N","O","P","Q","R","S","T","U","V","W","X","Y","Z">>
LowerCh == <<"a","b","c","d","e","f","g","h","i","j","k","l","m",
             "n","o","p","q","r","s","t","u","v","w","x","y","z">>
DigitCh == <<"0","1","2","3","4","5","6","7","8","9">>

\* code-point order of the characters a normalized name can hold
CharOrder == <<" ">> \o DigitCh \o LowerCh

Ord(c) == CHOOSE i \in 1..Len(CharOrder) : CharOrder[i] = c

\* str.lower() on one character
LowerChar(c) ==
    IF c \in Range(UpperCh)
    THEN LowerCh[CHOOSE i \in 1..Len(UpperCh) : UpperCh[i] = c]
    ELSE c

str_lower(s) == [i \in 1..Len(s) |-> LowerChar(s[i])]

IsSpace(c) == c = " "

\* the class [a-z0-9\s]
IsKept(c) == c \in Range(LowerCh) \/ c \in Range(DigitCh) \/ IsSpace(c)

\* re.sub(r"[^a-z0-9\s]", "", s)
StripPunct(s) == SelectSeq(s, IsKept)

\* re.sub(r"\s+", " ", s)
RECURSIVE CollapseSpaces(_)
CollapseSpaces(s) ==
    IF s = <<>> THEN <<>>
    ELSE IF IsSpace(Head(s))
         THEN IF Len(s) > 1 /\ IsSpace(s[2])
              THEN CollapseSpaces(Tail(s))
              ELSE <<" ">> \o CollapseSpaces(Tail(s))
         ELSE <<Head(s)>> \o CollapseSpaces(Tail(s))

RECURSIVE LStrip(_)
LStrip(s) == IF s # <<>> /\ IsSpace(Head(s)) THEN LStrip(Tail(s)) ELSE s

RECURSIVE RStrip(_)
RStrip(s) ==
    IF s # <<>> /\ IsSpace(s[Len(s)]) THEN RStrip(SubSeq(s, 1, Len(s) - 1)) ELSE s

\* str.strip()
Strip(s) == LStrip(RStrip(s))

\* str.startswith
StartsWith(s, p) == Len(s) >= Len(p) /\ SubSeq(s, 1, Len(p)) = p

\* the `in` operator on two strings
Contains(s, sub) ==
    \E i \in 1..(Len(s) + 1) :
        i + Len(sub) - 1 <= Len(s) /\ SubSeq(s, i, i + Len(sub) - 1) = sub

\* normalize_name: empty input yields ""
normalize_name(name) ==
    IF name = <<>> THEN <<>>
    ELSE Strip(CollapseSpaces(StripPunct(str_lower(name))))

ReportPrefix == <<"t","o","t","a","l"," ","n","u","r","s","i","n","g"," ",
                  "w","r","k","d"," ","-"," ">>

\* the overrides dict of extract_core_from_report, as (key, value) pairs
Overrides ==
    { << <<"d","a","l","l","a","s","t","o","w","n">>,
         <<"i","n","n","e","r","s"," ","c","r","e","e","k">> >>,
      << <<"l","a","n","c","a","s","t","e","r">>,
         <<"a","b","b","e","y","v","i","l","l","e">> >>,
      << <<"m","o","n","t","g","o","m","e","r","y","v","i","l","l","e">>,
         <<"m","o","n","t","g","o","m","e","r","y">> >>,
      << <<"w","e","s","t"," ","r","e","a","d","i","n","g">>,
         <<"l","e","b","a","n","o","n">> >>,
      << <<"s","u","n","b","u","r","y">>,
         <<"s","u","n","b","u","r","y">> >> }

\* overrides.get(core, core)
ApplyOverrides(core) ==
    IF \E p \in Overrides : p[1] = core
    THEN (CHOOSE p \in Overrides : p[1] = core)[2]
    ELSE core

\* report_name[21:].strip() after the prefix test, else report_name.strip()
CoreAfterPrefix(lowered) ==
    IF StartsWith(lowered, ReportPrefix)
    THEN Strip(SubSeq(lowered, Len(ReportPrefix) + 1, Len(lowered)))
    ELSE Strip(lowered)

\* extract_core_from_report
extract_core_from_report(report_name) ==
    IF report_name = <<>> THEN <<>>
    ELSE ApplyOverrides(
             Strip(CollapseSpaces(StripPunct(CoreAfterPrefix(str_lower(report_name))))))

\* ------------------------------------------------------------------ similarity
\* length of the common run of a from i and b from j, inside a[..ahi], b[..bhi]
RECURSIVE RunLen(_, _, _, _, _, _)
RunLen(a, b, i, j, ahi, bhi) ==
    IF i > ahi \/ j > bhi THEN 0
    ELSE IF a[i] # b[j] THEN 0
    ELSE 1 + RunLen(a, b, i + 1, j + 1, ahi, bhi)

\* SequenceMatcher.find_longest_match without junk: the longest block, the one
\* starting earliest in a, and among those the one starting earliest in b
FindLongestMatch(a, b, alo, ahi, blo, bhi) ==
    LET cand == {<<i, j, RunLen(a, b, i, j, ahi, bhi)>> : i \in alo..ahi, j \in blo..bhi}
        kmax == IF cand = {} THEN 0
                ELSE (CHOOSE c \in cand : \A d \in cand : d[3] <= c[3])[3]
    IN  IF kmax = 0 THEN <<alo, blo, 0>>
        ELSE CHOOSE c \in cand :
                 /\ c[3] = kmax
                 /\ \A d \in cand : d[3] = kmax =>
                        \/ c[1] < d[1]
                        \/ (c[1] = d[1] /\ c[2] <= d[2])

\* sum of the sizes of SequenceMatcher.get_matching_blocks
RECURSIVE MatchCount(_, _, _, _, _, _)
MatchCount(a, b, alo, ahi, blo, bhi) ==
    IF alo > ahi \/ blo > bhi THEN 0
    ELSE LET m == FindLongestMatch(a, b, alo, ahi, blo, bhi)
         IN  IF m[3] = 0 THEN 0
             ELSE m[3]
                  + MatchCount(a, b, alo, m[1] - 1, blo, m[2] - 1)
                  + MatchCount(a, b, m[1] + m[3], ahi, m[2] + m[3], bhi)

Matches(a, b) == MatchCount(a, b, 1, Len(a), 1, Len(b))

\* SequenceMatcher(None, a, b).ratio() >= tenths/10; the ratio is
\* 2.0*matches/length, and 1.0 when both strings are empty
RatioAtLeast(a, b, tenths) ==
    IF Len(a) + Len(b) = 0 THEN TRUE
    ELSE 20 * Matches(a, b) >= tenths * (Len(a) + Len(b))

\* ratio(a1, w) < ratio(a2, w), both against the same word w
RatioLess(a1, a2, w) ==
    LET t1 == Len(a1) + Len(w)
        t2 == Len(a2) + Len(w)
    IN  IF t1 = 0 THEN FALSE
        ELSE IF t2 = 0 THEN Matches(a1, w) * 2 < t1
        ELSE Matches(a1, w) * t2 < Matches(a2, w) * t1

RatioEqual(a1, a2, w) == ~RatioLess(a1, a2, w) /\ ~RatioLess(a2, a1, w)

\* x < y for two normalized strings, by code point
RECURSIVE StrLess(_, _)
StrLess(x, y) ==
    IF y = <<>> THEN FALSE
    ELSE IF x = <<>> THEN TRUE
    ELSE IF Head(x) = Head(y) THEN StrLess(Tail(x), Tail(y))
    ELSE Ord(Head(x)) < Ord(Head(y))

\* difflib.get_close_matches(word, possibilities, n=1, cutoff): the possibility
\* with the largest (ratio, string) among those whose ratio reaches the cutoff
\* (real_quick_ratio and quick_ratio are upper bounds of ratio and filter nothing
\* more); the possibility is sequence a and the word sequence b
get_close_matches(word, possibilities, tenths) ==
    LET ok == {x \in possibilities : RatioAtLeast(x, word, tenths)}
    IN  IF ok = {} THEN <<>>
        ELSE << CHOOSE x \in ok :
                    \A y \in ok : y # x =>
                        \/ RatioLess(y, x, word)
                        \/ (RatioEqual(y, x, word) /\ StrLess(y, x)) >>

\* ------------------------------------------------------------------ matcher
None == <<"<None>">>

CutoffHigh == 6    \* cutoff=0.6, in tenths
CutoffLow == 3     \* cutoff=0.3, in tenths

\* the "cleaned_name" of a template entry: normalize_name and the four
\* facility-specific rewrites of process_template_file
SkilledSuffix == <<" ","s","k","i","l","l","e","d"," ","n","u","r","s","i","n","g"," ",
                   "a","n","d"," ","r","e","h","a","b","i","l","i","t","a","t","i","o","n">>
Sunbury == <<"s","u","n","b","u","r","y">>
Lebanon == <<"l","e","b","a","n","o","n">>
Chambersburg == <<"c","h","a","m","b","e","r","s","b","u","r","g">>
Pottstown == <<"p","o","t","t","s","t","o","w","n">>

CleanFacility(facility_full) ==
    LET cleaned == normalize_name(facility_full)
    IN  IF Contains(cleaned, Sunbury \o SkilledSuffix) THEN Sunbury
        ELSE IF Contains(cleaned, Lebanon \o SkilledSuffix) THEN Lebanon
        ELSE IF Contains(cleaned, Chambersburg \o SkilledSuffix) THEN Chambersburg
        ELSE IF Contains(cleaned, Pottstown \o SkilledSuffix) THEN Pottstown
        ELSE cleaned

\* build_template_name_map: a dict comprehension, so of two entries with one
\* cleaned_name the later one's facility stays
build_template_name_map(entries) ==
    LET keys == {entries[i].cleaned_name : i \in 1..Len(entries)}
        last(k) == CHOOSE i \in 1..Len(entries) :
                       /\ entries[i].cleaned_name = k
                       /\ \A j \in 1..Len(entries) : entries[j].cleaned_name = k => j <= i
    IN  [k \in keys |-> entries[last(k)].facility]

\* a variant of match_report_to_template that returns the name it matched (the
\* core or the close key) in place of the map's value for it
MatchReturnsKey(report_name, template_name_map) ==
    LET core_name == extract_core_from_report(report_name)
        template_keys == DOMAIN template_name_map
        high == get_close_matches(core_name, template_keys, CutoffHigh)
        low == get_close_matches(core_name, template_keys, CutoffLow)
    IN  IF core_name \in template_keys THEN core_name
        ELSE IF high # <<>> THEN high[1]
        ELSE IF low # <<>> THEN low[1]
        ELSE None

\* a variant of match_report_to_template without the 0.3 retry
MatchWithoutFallback(report_name, template_name_map) ==
    LET core_name == extract_core_from_report(report_name)
        template_keys == DOMAIN template_name_map
        high == get_close_matches(core_name, template_keys, CutoffHigh)
    IN  IF core_name \in template_keys THEN template_name_map[core_name]
        ELSE IF high # <<>> THEN template_name_map[high[1]]
        ELSE None

\* match_report_to_template(report_name, template_name_map, cutoff=0.6)
match_report_to_template(report_name, template_name_map) ==
    LET core_name == extract_core_from_report(report_name)
        template_keys == DOMAIN template_name_map
        high == get_close_matches(core_name, template_keys, CutoffHigh)
        low == get_close_matches(core_name, template_keys, CutoffLow)
    IN  IF core_name \in template_keys THEN template_name_map[core_name]
        ELSE IF high # <<>> THEN template_name_map[high[1]]
        ELSE IF low # <<>> THEN template_name_map[low[1]]
        ELSE None

\* ------------------------------------------------------------------ cells
\* A cell value or a row value: a number, a text, or None
Num(x) == [t |-> "num", n |-> x, s |-> <<>>]
Str(x) == [t |-> "str", n |-> 0, s |-> x]
NoneVal == [t |-> "none", n |-> 0, s |-> <<>>]

\* Python truthiness of a cell value
Truthy(v) == (v.t = "num" /\ v.n # 0) \/ (v.t = "str" /\ v.s # <<>>)

\* safe_float_conversion: None, "" and unparsable text give the default 0.0
\* (every text cell of the model is non-numeric text)
safe_float_conversion(v) == IF v.t = "num" THEN v.n ELSE 0

\* round(num/den, 2) in hundredths, den > 0, num >= 0
Round2(num, den) == (200 * num + den) \div (2 * den)

\* ------------------------------------------------------------------ dates
D1 == "2024-05-01"
D2 == "2024-05-02"
BadTarget == "05/01/2024"

\* datetime.strptime(s, "%Y-%m-%d") succeeds
ValidDateString(s) == s \in {D1, D2}

\* str(datetime.strptime(target_date, "%Y-%m-%d").day)
DayOf(d) == IF d = D1 THEN "1" ELSE "2"

\* a date cell parses (a datetime, a serial number or a parsable text)
CellDateOk(c) == c \in {D1, D2}

\* ------------------------------------------------------------------ outcomes
\* what a process_*_file call gives: (entry, None), (None, (filename, reason))
\* or an exception that leaves the function
Entry(e) == [kind |-> "entry", entry |-> e, skip |-> <<>>]
Skip(filename, reason) == [kind |-> "skip", entry |-> <<>>, skip |-> <<filename, reason>>]
Raise == [kind |-> "raise", entry |-> <<>>, skip |-> <<>>]

\* is_valid_file(filename, extension); a filename is [id, hidden, ext] with
\* hidden = filename.startswith('._') and ext the lower-cased suffix
is_valid_file(filename, extension) ==
    IF filename.hidden THEN FALSE
    ELSE IF filename.ext # extension THEN FALSE
    ELSE TRUE

\* ------------------------------------------------------------------ template extractor
\* the template_entry dict; the projected values stay unrounded quotients
\* [num, den]; agency rates are read in 1/10000 so that rate*100 is in hundredths
TemplateEntry(f, sheet_date) ==
    LET census == safe_float_conversion(f.E27)
        cna_hours == safe_float_conversion(f.G58)
        nurse_e_hours == safe_float_conversion(f.E58)
        nurse_f_hours == safe_float_conversion(f.F58)
    IN  [ facility |-> f.D3.s,
          cleaned_name |-> CleanFacility(f.D3.s),
          date |-> sheet_date,
          note |-> IF Truthy(f.E62) THEN f.E62.s ELSE <<>>,
          census |-> census,
          proj_total |-> [num |-> cna_hours + nurse_e_hours + nurse_f_hours, den |-> census],
          proj_cna |-> [num |-> cna_hours, den |-> census],
          proj_nurse |-> [num |-> nurse_e_hours + nurse_f_hours, den |-> census],
          proj_agency_total |-> safe_float_conversion(f.L37),
          proj_agency_cna |-> safe_float_conversion(f.O34),
          proj_agency_nurse |-> safe_float_conversion(f.L34),
          file |-> f.filename ]   \* history: the file the entry was read from

\* a variant of TemplateBody without the comparison of the sheet date with the
\* target date
TemplateBodyAnyDate(f, tdate) ==
    IF ~ValidDateString(tdate)
    THEN Skip(f.filename, "Data parsing error")
    ELSE IF DayOf(tdate) \notin f.sheetnames
    THEN Skip(f.filename, "No sheet named")
    ELSE IF ~Truthy(f.D3)
    THEN Skip(f.filename, "Missing facility name in D3")
    ELSE IF f.B11 = ""
    THEN Skip(f.filename, "Missing date in B11")
    ELSE IF ~CellDateOk(f.B11)
    THEN Skip(f.filename, "Invalid date format in B11")
    ELSE IF safe_float_conversion(f.E27) <= 0
    THEN Skip(f.filename, "Invalid census value")
    ELSE Entry(TemplateEntry(f, f.B11))

\* a variant of TemplateBody that rejects only a negative census
TemplateBodyNegativeCensus(f, tdate) ==
    IF ~ValidDateString(tdate)
    THEN Skip(f.filename, "Data parsing error")
    ELSE IF DayOf(tdate) \notin f.sheetnames
    THEN Skip(f.filename, "No sheet named")
    ELSE IF ~Truthy(f.D3)
    THEN Skip(f.filename, "Missing facility name in D3")
    ELSE IF f.B11 = ""
    THEN Skip(f.filename, "Missing date in B11")
    ELSE IF ~CellDateOk(f.B11)
    THEN Skip(f.filename, "Invalid date format in B11")
    ELSE IF tdate # "" /\ f.B11 # tdate
    THEN Skip(f.filename, "Date mismatch")
    ELSE IF safe_float_conversion(f.E27) < 0
    THEN Skip(f.filename, "Invalid census value")
    ELSE Entry(TemplateEntry(f, f.B11))

\* the try block of process_template_file, after the workbook is open: any
\* exception in it is caught and becomes a "Data parsing error" skip
TemplateBody(f, tdate) ==
    IF ~ValidDateString(tdate)
    THEN Skip(f.filename, "Data parsing error")
    ELSE IF DayOf(tdate) \notin f.sheetnames
    THEN Skip(f.filename, "No sheet named")
    ELSE IF ~Truthy(f.D3)
    THEN Skip(f.filename, "Missing facility name in D3")
    ELSE IF f.B11 = ""
    THEN Skip(f.filename, "Missing date in B11")
    ELSE IF ~CellDateOk(f.B11)
    THEN Skip(f.filename, "Invalid date format in B11")
    ELSE IF tdate # "" /\ f.B11 # tdate
    THEN Skip(f.filename, "Date mismatch")
    ELSE IF safe_float_conversion(f.E27) <= 0
    THEN Skip(f.filename, "Invalid census value")
    ELSE Entry(TemplateEntry(f, f.B11))

\* process_template_file((filepath, filename, target_date))
process_template_file(f, tdate) ==
    IF ~is_valid_file(f.filename, "xlsx")
    THEN IF f.filename.hidden
         THEN Skip(f.filename, "Mac OS hidden file, skipped")
         ELSE Skip(f.filename, "Not .xlsx, skipped")
    ELSE IF ~f.opens
    THEN Skip(f.filename, "Openpyxl error")
    ELSE TemplateBody(f, tdate)

\* ------------------------------------------------------------------ report extractor
\* Sheet3 is the sequence rows3 of the rows with index 9, 10, ...: row index r
\* is rows3[r - 8]; a row is [C: the code cell's text, H: the hours cell]
Sheet3Row(rows3, r) == rows3[r - 8]
Sheet3Has(rows3, r) == r - 8 <= Len(rows3)

GrandTotal == <<"G","r","a","n","d"," ","T","o","t","a","l">>
TotalHoursWorked == <<"T","o","t","a","l"," ","H","o","u","r","s"," ","W","o","r","k","e","d">>
Code3210 == <<"3","2","1","0">>
Code3215 == <<"3","2","1","5">>
Code3225 == <<"3","2","2","5">>

\* one pass of the loop of extract_hours_by_dept_code over rows3[i..]
RECURSIVE DeptScan(_, _, _)
DeptScan(rows3, i, acc) ==
    IF i > Len(rows3) THEN acc
    ELSE LET code_cell == rows3[i].C
             code == Strip(code_cell)
             hours == safe_float_conversion(rows3[i].H)
             label == str_lower(code_cell)
             a1 == IF code = Code3210 THEN [acc EXCEPT !.rn = hours]
                   ELSE IF code = Code3215 THEN [acc EXCEPT !.lpn = hours]
                   ELSE IF code = Code3225 THEN [acc EXCEPT !.cna = hours]
                   ELSE acc
             a2 == IF \/ Contains(label, str_lower(TotalHoursWorked))
                      \/ Contains(label, str_lower(GrandTotal))
                   THEN [a1 EXCEPT !.total = hours]
                   ELSE a1
         IN  IF code_cell = <<>> THEN DeptScan(rows3, i + 1, acc)
             ELSE DeptScan(rows3, i + 1, a2)

\* extract_hours_by_dept_code(ws3)
extract_hours_by_dept_code(rows3) ==
    LET r == DeptScan(rows3, 1, [rn |-> 0, lpn |-> 0, cna |-> 0, total |-> 0])
    IN  IF r.total = 0 THEN [r EXCEPT !.total = r.rn + r.lpn + r.cna] ELSE r

\* the fixed-coordinate reads (13,7), (12,7), (10,7), (11,7): the first read
\* fails when the sheet has no row 13, and then all four are 0
OldHours(rows3) ==
    IF Sheet3Has(rows3, 13)
    THEN [ total |-> safe_float_conversion(Sheet3Row(rows3, 13).H),
           cna |-> safe_float_conversion(Sheet3Row(rows3, 12).H),
           rn |-> safe_float_conversion(Sheet3Row(rows3, 10).H),
           lpn |-> safe_float_conversion(Sheet3Row(rows3, 11).H) ]
    ELSE [total |-> 0, cna |-> 0, rn |-> 0, lpn |-> 0]

\* a variant of ActualHours that always takes the scanned hours
ActualHoursScanOnly(rows3) == extract_hours_by_dept_code(rows3)

\* step 6 of process_report_file: the scanned hours when the scan found any,
\* else the fixed-coordinate hours
ActualHours(rows3) ==
    LET new == extract_hours_by_dept_code(rows3)
        old == OldHours(rows3)
    IN  IF new.rn + new.lpn + new.cna > 0 THEN new ELSE old

\* str.upper() on one character
UpperChar(c) ==
    IF c \in Range(LowerCh)
    THEN UpperCh[CHOOSE i \in 1..Len(LowerCh) : LowerCh[i] = c]
    ELSE c

str_upper(s) == [i \in 1..Len(s) |-> UpperChar(s[i])]

\* cell_str.split('/')[-1]
RECURSIVE LastPart(_)
LastPart(s) ==
    IF "/" \notin Range(s) THEN s
    ELSE LastPart(Tail(s))

\* the block type a header row of Sheet2 starts
HeaderBlockType(cell_str) ==
    LET last_part == Strip(LastPart(cell_str))
    IN  IF ~Contains(cell_str, <<"A","G","Y">>) THEN "none"
        ELSE IF Contains(last_part, <<"C","N","A">>) THEN "agency_cna"
        ELSE IF Contains(last_part, <<"R","N">>) THEN "agency_rn"
        ELSE IF Contains(last_part, <<"L","P","N">>) THEN "agency_lpn"
        ELSE "none"

\* the loop of extract_agency_cna_rnlpn_from_sheet2 over rows2[i..]; rows2 holds
\* the rows with index 10, 11, ...: [A: text of column A, M: the hours cell]
RECURSIVE AgencyScan(_, _, _, _)
AgencyScan(rows2, i, block, acc) ==
    IF i > Len(rows2) THEN acc
    ELSE LET cell_str == str_upper(Strip(rows2[i].A))
             hours == safe_float_conversion(rows2[i].M)
         IN  IF cell_str = <<>> THEN AgencyScan(rows2, i + 1, block, acc)
             ELSE IF "/" \in Range(cell_str)
             THEN AgencyScan(rows2, i + 1, HeaderBlockType(cell_str), acc)
             ELSE IF block = "agency_cna"
             THEN AgencyScan(rows2, i + 1, block, [acc EXCEPT !.cna = @ + hours])
             ELSE IF block \in {"agency_rn", "agency_lpn"}
             THEN AgencyScan(rows2, i + 1, block, [acc EXCEPT !.rnlpn = @ + hours])
             ELSE AgencyScan(rows2, i + 1, block, acc)

\* extract_agency_cna_rnlpn_from_sheet2(ws2)
extract_agency_cna_rnlpn_from_sheet2(rows2) ==
    LET r == AgencyScan(rows2, 1, "none", [cna |-> 0, rnlpn |-> 0])
    IN  [ agency_cna_hours |-> r.cna,
          agency_rnlpn_hours |-> r.rnlpn,
          agency_total_hours |-> r.cna + r.rnlpn ]

\* round(agency / actual * 100, 2) in hundredths, 0.0 when actual is not positive
AgencyPct(agency, actual) == IF actual > 0 THEN Round2(100 * agency, actual) ELSE 0

\* compute_agency_percentages
compute_agency_percentages(agency_data, actual_cna_hours, actual_rn_hours, actual_lpn_hours) ==
    LET actual_rnlpn_hours == actual_rn_hours + actual_lpn_hours
        actual_total_hours == actual_cna_hours + actual_rnlpn_hours
    IN  [ actual_agency_cna_pct |-> AgencyPct(agency_data.agency_cna_hours, actual_cna_hours),
          actual_agency_nurse_pct |-> AgencyPct(agency_data.agency_rnlpn_hours, actual_rnlpn_hours),
          actual_agency_total_pct |-> AgencyPct(agency_data.agency_total_hours, actual_total_hours) ]

\* the dict process_report_file returns
ReportRecord(f, matched_template_name) ==
    LET h == ActualHours(f.rows3)
        agency_percentages ==
            compute_agency_percentages(extract_agency_cna_rnlpn_from_sheet2(f.rows2),
                                       h.cna, h.rn, h.lpn)
    IN  [ filename |-> f.filename,
          report_facility |-> f.facility.s,
          matched_template_name |-> matched_template_name,
          report_date |-> f.date,
          actual_hours |-> h.total,
          actual_cna_hours |-> h.cna,
          actual_rn_lpn_hours |-> h.rn + h.lpn,
          actual_agency_cna_pct |-> agency_percentages.actual_agency_cna_pct,
          actual_agency_nurse_pct |-> agency_percentages.actual_agency_nurse_pct,
          actual_agency_total_pct |-> agency_percentages.actual_agency_total_pct ]

\* a variant of ReportAfterDate whose read of the facility cell is outside
\* every try block
ReportAfterDateUnguarded(f, tmap) ==
    LET matched_template_name == match_report_to_template(f.facility.s, tmap)
    IN  IF ~f.has_row4
        THEN Raise
        ELSE IF ~Truthy(f.facility)
        THEN Skip(f.filename, "Missing facility name")
        ELSE IF matched_template_name = None
        THEN Skip(f.filename, "No matched facility name")
        ELSE Entry(ReportRecord(f, matched_template_name))

\* steps 5 to 9 of process_report_file: facility name, hours, agency, matching
ReportAfterDate(f, tmap) ==
    LET matched_template_name == match_report_to_template(f.facility.s, tmap)
    IN  IF ~f.has_row4
        THEN Skip(f.filename, "Failed to extract facility name")
        ELSE IF ~Truthy(f.facility)
        THEN Skip(f.filename, "Missing facility name")
        ELSE IF matched_template_name = None
        THEN Skip(f.filename, "No matched facility name")
        ELSE Entry(ReportRecord(f, matched_template_name))

\* steps 3 and 4 of process_report_file: the sheets, the date and its
\* comparison with the target date; strptime on the target date is outside
\* every try block
ReportBody(f, tdate, tmap) ==
    IF ~({"Sheet3", "Sheet2"} \subseteq f.sheet_names)
    THEN Skip(f.filename, "Missing Sheet3 or Sheet2")
    ELSE IF ~CellDateOk(f.date)
    THEN Skip(f.filename, "Invalid date format")
    ELSE IF tdate # "" /\ ~ValidDateString(tdate)
    THEN Raise
    ELSE IF tdate # "" /\ f.date # tdate
    THEN Skip(f.filename, "Date mismatch")
    ELSE ReportAfterDate(f, tmap)

\* process_report_file((filepath, filename, target_date, template_map))
process_report_file(f, tdate, tmap) ==
    IF ~is_valid_file(f.filename, "xls")
    THEN IF f.filename.hidden
         THEN Skip(f.filename, "Mac OS hidden file, skipped")
         ELSE Skip(f.filename, "Not .xls, skipped")
    ELSE IF ~f.opens
    THEN Skip(f.filename, "Failed to open workbook")
    ELSE ReportBody(f, tdate, tmap)

\* ------------------------------------------------------------------ SpecCore
\* extract_core_from_report applied to N, with and without the report prefix
\* and a trailing site code
SeqsUpTo(S, n) == UNION {[1..m -> S] : m \in 0..n}

TitlePrefix == <<"T","o","t","a","l"," ","N","u","r","s","i","n","g"," ",
                 "W","r","k","d"," ","-"," ">>
SiteCode == <<" ","P","A","1","2","_","3">>
BrightOaks == <<"B","r","i","g","h","t"," ","O","a","k","s">>
Lancaster == <<"L","a","n","c","a","s","t","e","r">>

CoreAlphabet == {"a", "B", " ", "_", "1"}
CoreNames == SeqsUpTo(CoreAlphabet, MaxCoreLen) \cup {BrightOaks, Lancaster}

CoreInput(a) ==
    (IF a.prefix THEN TitlePrefix ELSE <<>>) \o a.N \o (IF a.suffix THEN SiteCode ELSE <<>>)

InitCore ==
    /\ call = "extract_core_from_report"
    /\ arg \in [N : CoreNames, prefix : BOOLEAN, suffix : BOOLEAN]
    /\ returned = FALSE
    /\ ret = <<>>
    /\ RunIdle

ApplyCore ==
    /\ call = "extract_core_from_report"
    /\ ~returned
    /\ returned' = TRUE
    /\ ret' = extract_core_from_report(CoreInput(arg))
    /\ UNCHANGED <<call, arg, inputVars, processVars, appVars, runVars, poolVars>>

NextCore == ApplyCore

SpecCore == InitCore /\ [][NextCore]_vars

\* ------------------------------------------------------------------ SpecMatch
\* match_report_to_template applied to a raw report name and the name map of
\* up to MaxMapEntries template entries
MatchAlphabet == {"a", "b", "!"}
MatchRawNames == SeqsUpTo(MatchAlphabet, MaxRawLen)
MatchFacilities == SeqsUpTo(MatchAlphabet, MaxFacLen) \ {<<>>}

EntryOf(facility_full) ==
    [facility |-> facility_full, cleaned_name |-> CleanFacility(facility_full)]

MatchEntryLists ==
    UNION {[1..m -> {EntryOf(f) : f \in MatchFacilities}] : m \in 0..MaxMapEntries}

InitMatch ==
    /\ call = "match_report_to_template"
    /\ arg \in [report_name : MatchRawNames, entries : MatchEntryLists]
    /\ returned = FALSE
    /\ ret = <<>>
    /\ RunIdle

ApplyMatch ==
    /\ call = "match_report_to_template"
    /\ ~returned
    /\ returned' = TRUE
    /\ ret' = match_report_to_template(arg.report_name,
                                       build_template_name_map(arg.entries))
    /\ UNCHANGED <<call, arg, inputVars, processVars, appVars, runVars, poolVars>>

NextMatch == ApplyMatch

SpecMatch == InitMatch /\ [][NextMatch]_vars

\* ------------------------------------------------------------------ aggregator
\* the column headers other than Facility, Type and Date
MetricCols == {"Total HPPD", "CNA HPPD", "RN+LPN HPPD",
               "CNA Agency %", "RN+LPN Agency %", "Total Agency %", "Notes"}

\* a variant of Candidates that tests the date only
CandidatesByDate(entries, report_data) ==
    LET Fits(e) == e.date = report_data.report_date
    IN  SelectSeq(entries, Fits)

\* candidates of the matching loop: the template entries of the report's
\* matched facility and date, in template_entries order
Candidates(entries, report_data) ==
    LET Fits(e) == /\ e.facility = report_data.matched_template_name
                   /\ e.date = report_data.report_date
    IN  SelectSeq(entries, Fits)

\* the "Projected" row of results[key]
ProjectedRow(t, report_data) ==
    [ Facility |-> t.facility, Type |-> "Projected", Date |-> report_data.report_date,
      cols |-> [c \in MetricCols |->
          CASE c = "Total HPPD" -> Num(Round2(t.proj_total.num, t.proj_total.den))
            [] c = "CNA HPPD" -> Num(Round2(t.proj_cna.num, t.proj_cna.den))
            [] c = "RN+LPN HPPD" -> Num(Round2(t.proj_nurse.num, t.proj_nurse.den))
            [] c = "CNA Agency %" -> Num(t.proj_agency_cna)
            [] c = "RN+LPN Agency %" -> Num(t.proj_agency_nurse)
            [] c = "Total Agency %" -> Num(t.proj_agency_total)
            [] c = "Notes" -> Str(t.note)] ]

\* round(hours / t["census"], 2) if t["census"] > 0 else 0
ActualHppd(hours, census) == IF census > 0 THEN Round2(hours, census) ELSE 0

\* the "Actual" row of results[key]
ActualRow(t, report_data) ==
    [ Facility |-> t.facility, Type |-> "Actual", Date |-> report_data.report_date,
      cols |-> [c \in MetricCols |->
          CASE c = "Total HPPD" -> Num(ActualHppd(report_data.actual_hours, t.census))
            [] c = "CNA HPPD" -> Num(ActualHppd(report_data.actual_cna_hours, t.census))
            [] c = "RN+LPN HPPD" -> Num(ActualHppd(report_data.actual_rn_lpn_hours, t.census))
            [] c = "CNA Agency %" -> Num(report_data.actual_agency_cna_pct)
            [] c = "RN+LPN Agency %" -> Num(report_data.actual_agency_nurse_pct)
            [] c = "Total Agency %" -> Num(report_data.actual_agency_total_pct)
            [] c = "Notes" -> Str(t.note)] ]

\* d[key] = value on a dict kept as a sequence of [key, ...] records in
\* insertion order: an existing key keeps its place
DictPut(d, item) ==
    IF \E i \in 1..Len(d) : d[i].key = item.key
    THEN [i \in 1..Len(d) |-> IF d[i].key = item.key THEN item ELSE d[i]]
    ELSE Append(d, item)

\* ------------------------------------------------------------------ report writer
\* a variant of DifferenceRow that subtracts the projected from the actual value
DifferenceRowReversed(projected_row, actual_row) ==
    [ Facility |-> <<>>, Type |-> "Difference", Date |-> projected_row.Date,
      cols |-> [c \in MetricCols |->
          IF projected_row.cols[c].t = "num" /\ actual_row.cols[c].t = "num"
          THEN Num(actual_row.cols[c].n - projected_row.cols[c].n)
          ELSE NoneVal] ]

\* a variant of DifferenceRow that writes 0 where a value is not numeric
DifferenceRowZeroFilled(projected_row, actual_row) ==
    [ Facility |-> <<>>, Type |-> "Difference", Date |-> projected_row.Date,
      cols |-> [c \in MetricCols |->
          IF projected_row.cols[c].t = "num" /\ actual_row.cols[c].t = "num"
          THEN Num(projected_row.cols[c].n - actual_row.cols[c].n)
          ELSE Num(0)] ]

\* the difference_row of one key
DifferenceRow(projected_row, actual_row) ==
    [ Facility |-> <<>>, Type |-> "Difference", Date |-> projected_row.Date,
      cols |-> [c \in MetricCols |->
          IF projected_row.cols[c].t = "num" /\ actual_row.cols[c].t = "num"
          THEN Num(projected_row.cols[c].n - actual_row.cols[c].n)
          ELSE NoneVal] ]

\* a variant of Bucket with the strict bounds the section titles print
\* (3.0<HPPD<3.3, 2.00<CNA<2.06)
BucketByTitle(actual) ==
    LET hppd == actual.cols["Total HPPD"].n
        cna == actual.cols["CNA HPPD"].n
        rn == actual.cols["RN+LPN HPPD"].n
    IN  IF 300 < hppd /\ hppd < 330 /\ 200 < cna /\ cna < 206 /\ rn <= 120 THEN 1
        ELSE IF 300 < hppd /\ hppd < 330 /\ (cna < 200 \/ rn > 120) THEN 2
        ELSE IF (hppd < 300 \/ hppd > 330) /\ (cna < 200 \/ rn > 120) THEN 3
        ELSE 0

\* the group (1, 2 or 3; 0 for none) the categorizing loop puts a key in
Bucket(actual) ==
    LET hppd == actual.cols["Total HPPD"].n
        cna == actual.cols["CNA HPPD"].n
        rn == actual.cols["RN+LPN HPPD"].n
    IN  IF 300 <= hppd /\ hppd <= 330 /\ 200 <= cna /\ cna <= 206 /\ rn <= 120 THEN 1
        ELSE IF 300 <= hppd /\ hppd <= 330 /\ (cna < 200 \/ rn > 120) THEN 2
        ELSE IF (hppd < 300 \/ hppd > 330) /\ (cna < 200 \/ rn > 120) THEN 3
        ELSE 0

\* group1, group2, group3: the keys of each group, in results order
Group(res, g) ==
    LET In(item) == Bucket(item.rows[2]) = g
        sel == SelectSeq(res, In)
    IN  [i \in 1..Len(sel) |-> sel[i].key]

NoDataLine == "No data available for this category."

\* the rows write_section writes for one key: the Facility cell of the Actual
\* and Difference rows is written blank
WrittenRows(res, key) ==
    LET item == CHOOSE it \in Range(res) : it.key = key
        projected_row == item.rows[1]
        actual_row == item.rows[2]
    IN  << projected_row,
           [actual_row EXCEPT !.Facility = <<>>],
           DifferenceRow(projected_row, actual_row) >>

\* a variant of write_section that writes nothing under the title of an
\* empty group
WriteSectionTitleOnly(res, keys) ==
    [lines |-> <<>>, keys |-> keys,
     rows |-> [i \in 1..Len(keys) |-> WrittenRows(res, keys[i])]]

\* write_section(title, keys): what it adds to the primary sheet
write_section(res, keys) ==
    IF keys = <<>>
    THEN [lines |-> <<NoDataLine>>, keys |-> <<>>, rows |-> <<>>]
    ELSE [lines |-> <<>>, keys |-> keys,
          rows |-> [i \in 1..Len(keys) |-> WrittenRows(res, keys[i])]]

\* the three sections of the primary sheet
Sections(res) == [g \in 1..3 |-> write_section(res, Group(res, g))]

\* the `in` tests on a skip reason that pick its category
TemplateSkipCategory(reason) ==
    IF reason = "Mac OS hidden file, skipped" THEN "Mac OS Hidden File"
    ELSE IF reason \in {"Invalid date format in B11", "Invalid census value"}
    THEN "Invalid Data"
    ELSE "File Error"

ReportSkipCategory(reason) ==
    IF reason = "Mac OS hidden file, skipped" THEN "Mac OS Hidden File"
    ELSE IF reason = "No matched facility name" THEN "Name Matching Issue"
    ELSE "File Error"

\* the rows of the "Skipped Templates" sheet under its header
SkippedTemplatesSheet(skipped) ==
    IF skipped = <<>> THEN << <<"No skipped templates", "", "">> >>
    ELSE [i \in 1..Len(skipped) |->
             <<skipped[i][1], skipped[i][2], TemplateSkipCategory(skipped[i][2])>>]

\* the rows of the "Skipped Reports" sheet under its header
SkippedReportsSheet(skipped) ==
    IF skipped = <<>> THEN << <<"No skipped reports", "", "">> >>
    ELSE [i \in 1..Len(skipped) |->
             <<skipped[i][1], skipped[i][2], ReportSkipCategory(skipped[i][2])>>]

\* the Workbook of phase 5 (styles, widths and number formats are not modelled)
BuildWorkbook(res, skipped_t, skipped_r, debug_log) ==
    [ saved |-> FALSE,
      sections |-> Sections(res),
      skipped_templates_sheet |-> SkippedTemplatesSheet(skipped_t),
      skipped_reports_sheet |-> SkippedReportsSheet(skipped_r),
      debug_sheet |-> debug_log ]

\* ------------------------------------------------------------------ debug log
\* d[k] = v on the module-level dict (kept as a function)
LogPut(d, k, v) == [x \in DOMAIN d \cup {k} |-> IF x = k THEN v ELSE d[x]]

\* the entry the template phase writes for a loaded template
TemplateLogEntry(entry) ==
    [ TemplateLoaded |-> TRUE, CensusValid |-> entry.census > 0,
      ReportFound |-> FALSE, ReportLoaded |-> FALSE, Compared |-> FALSE,
      FailureReason |-> IF entry.census <= 0 THEN "Invalid census (0)" ELSE "None" ]

\* the debug tracking of process_report_file
ReportLogUpdate(d, matched_template_name) ==
    IF matched_template_name \notin DOMAIN d
    THEN LogPut(d, matched_template_name,
                [ TemplateLoaded |-> FALSE, CensusValid |-> FALSE,
                  ReportFound |-> TRUE, ReportLoaded |-> TRUE, Compared |-> FALSE,
                  FailureReason |-> "Template missing" ])
    ELSE [d EXCEPT ![matched_template_name].ReportFound = TRUE,
                   ![matched_template_name].ReportLoaded = TRUE]

\* ------------------------------------------------------------------ the input files of a run
OakHill == <<"O","a","k"," ","H","i","l","l">>
ElmPark == <<"E","l","m"," ","P","a","r","k">>
OakHillSnf == <<"O","A","K"," ","H","I","L","L"," ","S","N","F">>
PrefixedOakHill == TitlePrefix \o OakHill
ElmParkUpper == <<"E","L","M"," ","P","A","R","K">>
Unknown == <<"z","z","z">>

TplOakHill ==
    [ filename |-> [id |-> 0, hidden |-> FALSE, ext |-> "xlsx"],
      opens |-> TRUE, sheetnames |-> {"1", "2"},
      D3 |-> Str(OakHill), B11 |-> D1, E62 |-> NoneVal,
      E27 |-> Num(100), G58 |-> Num(210), E58 |-> Num(105), F58 |-> Num(0),
      L37 |-> Num(500), L34 |-> Num(400), O34 |-> Num(600) ]

TplElmPark ==
    [ TplOakHill EXCEPT !.D3 = Str(ElmPark), !.E62 = Str(<<"n">>), !.E27 = Num(50),
                        !.G58 = Num(100), !.E58 = Num(30), !.F58 = Num(20) ]

TplCensusZero == [TplOakHill EXCEPT !.E27 = Num(0)]
TplHidden == [TplOakHill EXCEPT !.filename.hidden = TRUE]
TplOtherDay == [TplOakHill EXCEPT !.B11 = D2]

TemplateKinds == {TplOakHill, TplElmPark, TplCensusZero, TplHidden, TplOtherDay}

FixedRow(hours) == [C |-> <<>>, H |-> Num(hours)]

\* "OAK HILL SNF": hours at the fixed coordinates only (RN 60, LPN 40, CNA 200,
\* total 300)
RepOakHillSnf ==
    [ filename |-> [id |-> 0, hidden |-> FALSE, ext |-> "xls"],
      opens |-> TRUE, sheet_names |-> {"Sheet1", "Sheet2", "Sheet3"},
      date |-> D1, has_row4 |-> TRUE, facility |-> Str(OakHillSnf),
      rows3 |-> <<FixedRow(0), FixedRow(60), FixedRow(40), FixedRow(200), FixedRow(300)>>,
      rows2 |-> <<>> ]

\* "Total Nursing Wrkd - Oak Hill": a second report of the same facility
RepOakHillPrefixed ==
    [ RepOakHillSnf EXCEPT
        !.facility = Str(PrefixedOakHill),
        !.rows3 = <<FixedRow(0), FixedRow(90), FixedRow(60), FixedRow(190), FixedRow(310)>> ]

\* "ELM PARK": hours by department code, and an agency CNA block on Sheet2
RepElmPark ==
    [ RepOakHillSnf EXCEPT
        !.facility = Str(ElmParkUpper),
        !.rows3 = << [C |-> Code3210, H |-> Num(40)], [C |-> Code3215, H |-> Num(35)],
                     [C |-> Code3225, H |-> Num(90)], [C |-> GrandTotal, H |-> Num(125)] >>,
        !.rows2 = << [A |-> <<"8","0","6","/","A","G","Y","/","C","N","A">>, M |-> NoneVal],
                     [A |-> <<"x">>, M |-> Num(9)] >> ]

RepUnknown == [RepOakHillSnf EXCEPT !.facility = Str(Unknown)]
RepHidden == [RepOakHillSnf EXCEPT !.filename.hidden = TRUE]
RepOtherDay == [RepOakHillSnf EXCEPT !.date = D2]

ReportKinds == {RepOakHillSnf, RepOakHillPrefixed, RepElmPark, RepUnknown,
                RepHidden, RepOtherDay}

TargetDates == {D1, BadTarget, ""}

MaxFiles == 3    \* most files in the two directories together

\* os.walk gives each file once; file names are distinct across both
\* directories: the i-th file found has id i
Numbered(files, from) == [i \in 1..Len(files) |-> [files[i] EXCEPT !.filename.id = from + i]]

\* ------------------------------------------------------------------ Spec: one run
Init ==
    /\ call = "none" /\ arg = <<>> /\ returned = FALSE /\ ret = <<>>
    /\ target_date \in TargetDates
    /\ templates_exists \in BOOLEAN
    /\ reports_exists \in BOOLEAN
    /\ \E nt \in 0..MaxFiles : \E nr \in 0..(MaxFiles - nt) :
         /\ ~templates_exists => nt = 0
         /\ ~reports_exists => nr = 0
         /\ \E tf \in [1..nt -> TemplateKinds] : templates_dir = Numbered(tf, 0)
         /\ \E rf \in [1..nr -> ReportKinds] : reports_dir = Numbered(rf, nt)
    /\ pc = "start"
    /\ template_files = <<>>
    /\ nextT = 1
    /\ template_entries = <<>>
    /\ skipped_templates = <<>>
    /\ template_map = <<>>
    /\ report_files = <<>>
    /\ nextR = 1
    /\ report_data_list = <<>>
    /\ skipped_reports = <<>>
    /\ nextM = 1
    /\ results = <<>>
    /\ wb = NoWorkbook
    /\ comparison_debug_log = <<>>
    /\ progress_log = <<>>
    /\ output = NoWorkbook
    /\ error = "none"
    /\ provenance = <<>>
    /\ tasks = <<>>
    /\ shared_writes = <<>>
    /\ invocation = 1
    /\ progress_store = <<>>
    /\ jobs = <<>>

\* os.walk(folder): nothing when the folder does not exist (onerror is None)
Walk(exists, dir) == IF exists THEN dir ELSE <<>>

\* progress(5), the walk of templates_folder, progress(15)
CollectTemplates ==
    /\ pc = "start"
    /\ template_files' = Walk(templates_exists, templates_dir)
    /\ progress_log' = progress_log \o <<5, 15>>
    /\ pc' = "templates"
    /\ UNCHANGED <<fnVars, inputVars, processVars, appVars, poolVars, nextT, template_entries, skipped_templates,
                   template_map, report_files, nextR, report_data_list,
                   skipped_reports, nextM, results, wb, comparison_debug_log,
                   output, error, provenance>>

\* one turn of the loop over executor.map(process_template_file, template_files)
ProcessTemplate ==
    /\ pc = "templates"
    /\ nextT <= Len(template_files)
    /\ \E r \in {process_template_file(template_files[nextT], target_date)} :
           IF r.kind = "entry"
           THEN /\ template_entries' = Append(template_entries, r.entry)
                /\ comparison_debug_log' =
                       LogPut(comparison_debug_log, r.entry.facility, TemplateLogEntry(r.entry))
                /\ UNCHANGED skipped_templates
           ELSE /\ skipped_templates' = Append(skipped_templates, r.skip)
                /\ UNCHANGED <<template_entries, comparison_debug_log>>
    /\ nextT' = nextT + 1
    /\ UNCHANGED <<fnVars, inputVars, processVars, appVars, poolVars, pc, template_files, template_map, report_files,
                   nextR, report_data_list, skipped_reports, nextM, results, wb,
                   progress_log, output, error, provenance>>

\* a variant of BuildMap that does not report its checkpoint
BuildMapUnreported ==
    /\ pc = "templates"
    /\ nextT > Len(template_files)
    /\ template_map' = build_template_name_map(template_entries)
    /\ pc' = "collect"
    /\ UNCHANGED <<fnVars, inputVars, processVars, appVars, poolVars, template_files, nextT, template_entries,
                   skipped_templates, report_files, nextR, report_data_list,
                   skipped_reports, nextM, results, wb, comparison_debug_log,
                   progress_log, output, error, provenance>>

\* progress(30) and build_template_name_map
BuildMap ==
    /\ pc = "templates"
    /\ nextT > Len(template_files)
    /\ progress_log' = Append(progress_log, 30)
    /\ template_map' = build_template_name_map(template_entries)
    /\ pc' = "collect"
    /\ UNCHANGED <<fnVars, inputVars, processVars, appVars, poolVars, template_files, nextT, template_entries,
                   skipped_templates, report_files, nextR, report_data_list,
                   skipped_reports, nextM, results, wb, comparison_debug_log,
                   output, error, provenance>>

\* progress(40), the walk of reports_folder, progress(50)
CollectReports ==
    /\ pc = "collect"
    /\ report_files' = Walk(reports_exists, reports_dir)
    /\ progress_log' = progress_log \o <<40, 50>>
    /\ pc' = "reports"
    /\ UNCHANGED <<fnVars, inputVars, processVars, appVars, poolVars, template_files, nextT, template_entries,
                   skipped_templates, template_map, nextR, report_data_list,
                   skipped_reports, nextM, results, wb, comparison_debug_log,
                   output, error, provenance>>

\* one turn of the loop over ex.map(process_report_file, report_files); when the
\* call raises, the exception leaves ex.map and the run
ProcessReport ==
    /\ pc = "reports"
    /\ nextR <= Len(report_files)
    /\ \E r \in {process_report_file(report_files[nextR], target_date, template_map)} :
           IF r.kind = "raise"
           THEN /\ pc' = "raised"
                /\ error' = "ValueError"
                /\ UNCHANGED <<report_data_list, comparison_debug_log, skipped_reports, nextR>>
           ELSE IF r.kind = "entry"
           THEN /\ report_data_list' = Append(report_data_list, r.entry)
                /\ comparison_debug_log' =
                       ReportLogUpdate(comparison_debug_log, r.entry.matched_template_name)
                /\ nextR' = nextR + 1
                /\ UNCHANGED <<skipped_reports, pc, error>>
           ELSE /\ skipped_reports' = Append(skipped_reports, r.skip)
                /\ nextR' = nextR + 1
                /\ UNCHANGED <<report_data_list, comparison_debug_log, pc, error>>
    /\ UNCHANGED <<fnVars, inputVars, processVars, appVars, poolVars, template_files, nextT, template_entries,
                   skipped_templates, template_map, report_files, nextM, results, wb,
                   progress_log, output, provenance>>

\* progress(65) and results = {}
StartMatching ==
    /\ pc = "reports"
    /\ nextR > Len(report_files)
    /\ progress_log' = Append(progress_log, 65)
    /\ results' = <<>>
    /\ pc' = "matching"
    /\ UNCHANGED <<fnVars, inputVars, processVars, appVars, poolVars, template_files, nextT, template_entries,
                   skipped_templates, template_map, report_files, nextR,
                   report_data_list, skipped_reports, nextM, wb,
                   comparison_debug_log, output, error, provenance>>

\* one turn of the loop "for report_data in report_data_list"
MatchReport ==
    /\ pc = "matching"
    /\ nextM <= Len(report_data_list)
    /\ \E report_data \in {report_data_list[nextM]} :
       \E candidates \in {Candidates(template_entries, report_data)} :
           IF candidates = <<>>
           THEN /\ skipped_reports' =
                       Append(skipped_reports, <<report_data.filename, "No matched date">>)
                /\ UNCHANGED <<results, comparison_debug_log, provenance>>
           ELSE \E t \in {candidates[1]} :
                \E key \in {<<t.facility, report_data.report_date>>} :
                /\ comparison_debug_log' =
                       [comparison_debug_log EXCEPT ![t.facility].Compared = TRUE]
                /\ results' = DictPut(results,
                                  [key |-> key,
                                   rows |-> <<ProjectedRow(t, report_data),
                                              ActualRow(t, report_data)>>])
                /\ provenance' = DictPut(provenance,
                                  [key |-> key, template |-> t.file,
                                   report |-> report_data.filename])
                /\ UNCHANGED skipped_reports
    /\ nextM' = nextM + 1
    /\ UNCHANGED <<fnVars, inputVars, processVars, appVars, poolVars, pc, template_files, nextT, template_entries,
                   skipped_templates, template_map, report_files, nextR,
                   report_data_list, wb, progress_log, output, error>>

\* progress(80) and phase 5 up to the save: difference rows, groups, the three
\* sections, the two skip sheets and the debug sheet
GenerateExcel ==
    /\ pc = "matching"
    /\ nextM > Len(report_data_list)
    /\ progress_log' = Append(progress_log, 80)
    /\ wb' = BuildWorkbook(results, skipped_templates, skipped_reports, comparison_debug_log)
    /\ pc' = "save"
    /\ UNCHANGED <<fnVars, inputVars, processVars, appVars, poolVars, template_files, nextT, template_entries,
                   skipped_templates, template_map, report_files, nextR,
                   report_data_list, skipped_reports, nextM, results,
                   comparison_debug_log, output, error, provenance>>

\* wb.save succeeds
SaveWorkbook ==
    /\ pc = "save"
    /\ output' = [wb EXCEPT !.saved = TRUE]
    /\ pc' = "saved"
    /\ UNCHANGED <<fnVars, inputVars, processVars, appVars, poolVars, template_files, nextT, template_entries,
                   skipped_templates, template_map, report_files, nextR,
                   report_data_list, skipped_reports, nextM, results, wb,
                   comparison_debug_log, progress_log, error, provenance>>

\* progress(100) and return final_output_path
Complete ==
    /\ pc = "saved"
    /\ progress_log' = Append(progress_log, 100)
    /\ pc' = "done"
    /\ UNCHANGED <<fnVars, inputVars, processVars, appVars, poolVars, template_files, nextT, template_entries,
                   skipped_templates, template_map, report_files, nextR,
                   report_data_list, skipped_reports, nextM, results, wb,
                   comparison_debug_log, output, error, provenance>>

\* wb.save raises (the output directory cannot be written)
SaveFails ==
    /\ pc = "save"
    /\ pc' = "raised"
    /\ error' = "OSError"
    /\ UNCHANGED <<fnVars, inputVars, processVars, appVars, poolVars, template_files, nextT, template_entries,
                   skipped_templates, template_map, report_files, nextR,
                   report_data_list, skipped_reports, nextM, results, wb,
                   comparison_debug_log, progress_log, output, provenance>>

Next ==
    \/ CollectTemplates
    \/ ProcessTemplate
    \/ BuildMap
    \/ CollectReports
    \/ ProcessReport
    \/ StartMatching
    \/ MatchReport
    \/ GenerateExcel
    \/ SaveWorkbook
    \/ Complete
    \/ SaveFails

Spec == Init /\ [][Next]_vars

\* ------------------------------------------------------------------ SpecBucket
\* the categorizing loop and the three write_section calls applied to a results
\* dict of up to MaxBucketKeys keys, whose Actual rows hold the values on both
\* sides of every threshold
MaxBucketKeys == 2

ActualValues ==
    [hppd : {299, 300, 330, 331}, cna : {199, 200, 206, 207}, rn : {120, 121}]
    \cup { [hppd |-> 310, cna |-> 203, rn |-> 100],
           [hppd |-> 310, cna |-> 190, rn |-> 150],
           [hppd |-> 250, cna |-> 180, rn |-> 150],
           [hppd |-> 250, cna |-> 205, rn |-> 100] }

\* the i-th key of the dict: a facility of its own, on the date D1
BucketKey(i) == << <<"F", DigitCh[i + 1]>>, D1 >>

\* a row of results[key] with the three HPPD columns of v
BucketRow(i, type, v) ==
    [ Facility |-> BucketKey(i)[1], Type |-> type, Date |-> D1,
      cols |-> [c \in MetricCols |->
          CASE c = "Total HPPD" -> Num(v.hppd)
            [] c = "CNA HPPD" -> Num(v.cna)
            [] c = "RN+LPN HPPD" -> Num(v.rn)
            [] c = "Notes" -> Str(<<>>)
            [] OTHER -> Num(0)] ]

\* the results dict whose i-th key has the Actual values actuals[i]
BucketResults(actuals) ==
    [i \in 1..Len(actuals) |->
        [ key |-> BucketKey(i),
          rows |-> << BucketRow(i, "Projected", [hppd |-> 315, cna |-> 210, rn |-> 105]),
                      BucketRow(i, "Actual", actuals[i]) >> ]]

InitBucket ==
    /\ call = "write_sections"
    /\ arg \in UNION {[1..n -> ActualValues] : n \in 0..MaxBucketKeys}
    /\ returned = FALSE
    /\ ret = <<>>
    /\ RunIdle

ApplyBucket ==
    /\ call = "write_sections"
    /\ ~returned
    /\ returned' = TRUE
    /\ ret' = Sections(BucketResults(arg))
    /\ UNCHANGED <<call, arg, inputVars, processVars, appVars, runVars, poolVars>>

NextBucket == ApplyBucket

SpecBucket == InitBucket /\ [][NextBucket]_vars

\* ------------------------------------------------------------------ SpecFile
\* process_template_file and process_report_file applied to one file, for every
\* combination of what each step of the extraction can find in it
FileTargetDates == TargetDates \cup {D2}

Garbage == "garbage"    \* a date cell that does not parse

TemplateFiles ==
    [ filename : [id : {1}, hidden : BOOLEAN, ext : {"xlsx", "xls"}],
      opens : BOOLEAN,
      sheetnames : {{"1", "2"}, {"2"}},
      D3 : {Str(OakHill), NoneVal},
      B11 : {D1, D2, "", Garbage},
      E62 : {NoneVal},
      E27 : {Num(100), Num(0), Num(-5), NoneVal, Str(<<>>), Str(<<"x">>)},
      G58 : {Num(210)}, E58 : {Num(105)}, F58 : {NoneVal},
      L37 : {Num(500)}, L34 : {Num(400)}, O34 : {Num(600)} ]

\* a sheet without the facility row has no hours rows either
ReportFiles ==
    { f \in [ filename : [id : {1}, hidden : BOOLEAN, ext : {"xls", "xlsx"}],
              opens : BOOLEAN,
              sheet_names : {{"Sheet1", "Sheet2", "Sheet3"}, {"Sheet1", "Sheet3"}},
              date : {D1, D2, Garbage},
              has_row4 : BOOLEAN,
              facility : {Str(OakHillSnf), Str(Unknown), Str(<<>>)},
              rows3 : {RepOakHillSnf.rows3, RepElmPark.rows3, <<>>},
              rows2 : {<<>>, RepElmPark.rows2} ] :
        ~f.has_row4 => f.rows3 = <<>> }

FileMaps == { build_template_name_map(<<>>),
              build_template_name_map(<<EntryOf(OakHill)>>) }

InitFile ==
    /\ \/ /\ call = "process_template_file"
          /\ arg \in [f : TemplateFiles, tdate : FileTargetDates]
       \/ /\ call = "process_report_file"
          /\ arg \in [f : ReportFiles, tdate : FileTargetDates, tmap : FileMaps]
    /\ returned = FALSE
    /\ ret = <<>>
    /\ RunIdle

ApplyTemplate ==
    /\ call = "process_template_file"
    /\ ~returned
    /\ returned' = TRUE
    /\ ret' = process_template_file(arg.f, arg.tdate)
    /\ UNCHANGED <<call, arg, inputVars, processVars, appVars, runVars, poolVars>>

ApplyReport ==
    /\ call = "process_report_file"
    /\ ~returned
    /\ returned' = TRUE
    /\ ret' = process_report_file(arg.f, arg.tdate, arg.tmap)
    /\ UNCHANGED <<call, arg, inputVars, processVars, appVars, runVars, poolVars>>

NextFile == ApplyTemplate \/ ApplyReport

SpecFile == InitFile /\ [][NextFile]_vars

\* ================================================================== properties
\* ------------------------------------------------------------------ C1
\* the file names the two walks found
WalkedFiles ==
    {template_files[i].filename : i \in 1..Len(template_files)}
    \cup {report_files[i].filename : i \in 1..Len(report_files)}

\* the file is behind a comparison row of the final results
Contributed(filename) ==
    \E i \in 1..Len(provenance) :
        provenance[i].template = filename \/ provenance[i].report = filename

InSkippedTemplates(filename) ==
    \E i \in 1..Len(skipped_templates) : skipped_templates[i][1] = filename

InSkippedReports(filename) ==
    \E i \in 1..Len(skipped_reports) : skipped_reports[i][1] = filename

\* C1: when the run has finished, every template file and every report file of
\* the walks that is behind no comparison row of results is in exactly one of
\* skipped_templates and skipped_reports.
C1_SkipRecordsComplete ==
    pc = "done" =>
        \A filename \in WalkedFiles :
            ~Contributed(filename) =>
                InSkippedTemplates(filename) # InSkippedReports(filename)

\* ------------------------------------------------------------------ C2
\* C2: for every key of the results dict, with hppd, cna and rn of its Actual
\* row: section 1 lists the key iff 3.0 <= hppd <= 3.3, 2.00 <= cna <= 2.06 and
\* rn <= 1.2; section 2 iff 3.0 <= hppd <= 3.3 and (cna < 2.0 or rn > 1.2);
\* section 3 iff (hppd < 3.0 or hppd > 3.3) and (cna < 2.0 or rn > 1.2); and no
\* key is listed in more than one section.
C2_BucketClassification ==
    (call = "write_sections" /\ returned) =>
        \A i \in 1..Len(arg) :
            LET v == arg[i]
                Listed(g) == \E j \in 1..Len(ret[g].keys) : ret[g].keys[j] = BucketKey(i)
                good_hppd == 300 <= v.hppd /\ v.hppd <= 330
                bad_split == v.cna < 200 \/ v.rn > 120
            IN  /\ Listed(1) <=> (good_hppd /\ 200 <= v.cna /\ v.cna <= 206 /\ v.rn <= 120)
                /\ Listed(2) <=> (good_hppd /\ bad_split)
                /\ Listed(3) <=> (~good_hppd /\ bad_split)
                /\ Cardinality({g \in 1..3 : Listed(g)}) <= 1

\* a dict of two keys: hppd=2.5, cna=2.05, rn=1.0 is listed nowhere, and the key
\* on the upper thresholds (3.3, 2.06, 1.2) is the one key of section 1
C2_Witness ==
    /\ call = "write_sections" /\ returned
    /\ Len(arg) = 2
    /\ arg[1] = [hppd |-> 250, cna |-> 205, rn |-> 100]
    /\ arg[2] = [hppd |-> 330, cna |-> 206, rn |-> 120]
    /\ ret[1].keys = <<BucketKey(2)>>
    /\ ret[2].keys = <<>> /\ ret[3].keys = <<>>

\* ------------------------------------------------------------------ C3
\* one template of "Oak Hill" (census 100, CNA hours 210, nurse hours 105) and
\* one report "OAK HILL SNF" (CNA 200, RN+LPN 100, total 300), both of 2024-05-01
OakHillRun ==
    /\ target_date = D1
    /\ templates_exists /\ reports_exists
    /\ templates_dir = Numbered(<<TplOakHill>>, 0)
    /\ reports_dir = Numbered(<<RepOakHillSnf>>, 1)

\* the saved workbook holds one comparison row, in section g: Projected Total
\* HPPD 3.15, Actual 3.00, Difference 0.15
OakHillOutput(g) ==
    /\ Len(results) = 1
    /\ output.saved
    /\ \A h \in 1..3 :
          output.sections[h].keys = IF h = g THEN << <<OakHill, D1>> >> ELSE <<>>
    /\ Len(output.sections[g].rows) = 1
    /\ \E rows \in {output.sections[g].rows[1]} :
          /\ rows[1].Type = "Projected" /\ rows[1].cols["Total HPPD"] = Num(315)
          /\ rows[2].Type = "Actual" /\ rows[2].cols["Total HPPD"] = Num(300)
          /\ rows[3].Type = "Difference" /\ rows[3].cols["Total HPPD"] = Num(15)

\* C3 as stated: the Oak Hill run ends with one comparison row (3.15, 3.00,
\* 0.15) placed in Bucket 3.
C3_OakHillInBucket3 == (OakHillRun /\ pc = "done") => OakHillOutput(3)

\* C3: the Oak Hill run ends with one comparison row (Projected Total HPPD 3.15,
\* Actual 3.00, Difference 0.15), and the row is placed in Bucket 1 (actual hppd
\* 3.00, cna 2.00, rn 1.00).
C3_OakHillInBucket1 == (OakHillRun /\ pc = "done") => OakHillOutput(1)

C3_Witness == OakHillRun /\ pc = "done" /\ output.saved /\ Len(results) = 1

\* ------------------------------------------------------------------ C4
\* C4: in every state, each key (facility, date) of results has a template entry
\* of that facility and date and a report record whose matched_template_name is
\* the facility and whose report_date is the date.
C4_RowHasTemplateAndReport ==
    \A i \in 1..Len(results) :
        LET key == results[i].key
        IN  /\ \E j \in 1..Len(template_entries) :
                  /\ template_entries[j].facility = key[1]
                  /\ template_entries[j].date = key[2]
            /\ \E j \in 1..Len(report_data_list) :
                  /\ report_data_list[j].matched_template_name = key[1]
                  /\ report_data_list[j].report_date = key[2]

\* inside the loop, after the first key was stored and with a report left
C4_Witness ==
    /\ pc = "matching"
    /\ Len(results) = 1
    /\ nextM = 2
    /\ Len(report_data_list) = 2

C6_PrefixAndSiteCodeStripped ==
    (call = "extract_core_from_report" /\ returned /\ arg.prefix /\ arg.suffix) =>
        ret = ApplyOverrides(normalize_name(arg.N))

\* ------------------------------------------------------------------ C7
\* C7 as stated: for every file and every failing step, process_template_file
\* and process_report_file return instead of raising.
C7_NeverRaises ==
    (call \in {"process_template_file", "process_report_file"} /\ returned) =>
        ret.kind # "raise"

\* C7: when target_date is empty or a valid YYYY-MM-DD string, for every file and
\* every failing step process_template_file and process_report_file return an
\* entry or a (None, (filename, reason)) skip record of that file, and do not
\* raise.
C7_NoRaiseUnderValidTarget ==
    ( /\ call \in {"process_template_file", "process_report_file"}
      /\ returned
      /\ (arg.tdate = "" \/ ValidDateString(arg.tdate)) ) =>
        /\ ret.kind \in {"entry", "skip"}
        /\ ret.kind = "skip" => ret.skip[1] = arg.f.filename

\* a report whose facility cell cannot be read, under a valid target date that
\* is the report's date: the failure comes back as a skip record
C7_Witness ==
    /\ call = "process_report_file" /\ returned
    /\ arg.tdate = D1 /\ arg.f.date = D1
    /\ ~arg.f.has_row4
    /\ ret = Skip(arg.f.filename, "Failed to extract facility name")

\* ------------------------------------------------------------------ C8
\* C8: when target_date is a non-empty string that is no valid YYYY-MM-DD date,
\* the run does not complete and no output workbook is saved, whatever the two
\* directories hold.
C8_InvalidTargetFails ==
    (target_date # "" /\ ~ValidDateString(target_date)) =>
        (pc # "done" /\ output = NoWorkbook)

\* ------------------------------------------------------------------ C9
\* C9: when the templates directory or the reports directory does not exist,
\* the run does not complete and no output workbook is saved.
C9_MissingDirectoryFails ==
    (~templates_exists \/ ~reports_exists) =>
        (pc # "done" /\ output = NoWorkbook)

\* ------------------------------------------------------------------ C10
\* C10: with zero result keys, the workbook built and saved has the line "No data
\* available for this category." and no rows in each of the three sections, and
\* its two skip sheets hold every recorded (filename, reason) in order; the run
\* that completes returns that workbook saved; and a run fails only by the
\* ValueError of an invalid target date or the OSError of the save.
C10_EmptyResultsWorkbook ==
    /\ (pc \in {"save", "done"} /\ results = <<>>) =>
          /\ \A g \in 1..3 :
                wb.sections[g].lines = <<NoDataLine>> /\ wb.sections[g].rows = <<>>
          /\ \A i \in 1..Len(skipped_templates) :
                /\ wb.skipped_templates_sheet[i][1] = skipped_templates[i][1]
                /\ wb.skipped_templates_sheet[i][2] = skipped_templates[i][2]
          /\ \A i \in 1..Len(skipped_reports) :
                /\ wb.skipped_reports_sheet[i][1] = skipped_reports[i][1]
                /\ wb.skipped_reports_sheet[i][2] = skipped_reports[i][2]
    /\ (pc = "done" /\ results = <<>>) => output = [wb EXCEPT !.saved = TRUE]
    /\ pc = "raised" =>
          \/ error = "OSError" /\ wb # NoWorkbook
          \/ error = "ValueError" /\ target_date # "" /\ ~ValidDateString(target_date)

\* a completed run without result keys and with skips of both kinds
C10_Witness ==
    /\ pc = "done"
    /\ results = <<>>
    /\ output.saved
    /\ skipped_templates # <<>>
    /\ skipped_reports # <<>>

\* ------------------------------------------------------------------ C11
\* C11: for every key written to the workbook and every column other than
\* Facility, Type and Date, the Difference row holds projected - actual of the
\* values shown in the Projected and the Actual row when both are numbers
\* (hundredths, so the difference is already rounded to two decimals), and None
\* when either is not a number.
C11_DifferenceRow ==
    pc \in {"save", "done"} =>
        \A g \in 1..3 : \A i \in 1..Len(wb.sections[g].rows) :
            \E rows \in {wb.sections[g].rows[i]} :
                /\ rows[3].Type = "Difference"
                /\ \A c \in MetricCols :
                      IF rows[1].cols[c].t = "num" /\ rows[2].cols[c].t = "num"
                      THEN rows[3].cols[c] = Num(rows[1].cols[c].n - rows[2].cols[c].n)
                      ELSE rows[3].cols[c] = NoneVal

\* a saved workbook with a written key whose note is a text and whose Total HPPD
\* and CNA Agency % differ between the two rows
C11_Witness ==
    /\ pc = "done"
    /\ \E g \in 1..3 : \E i \in 1..Len(output.sections[g].rows) :
          \E rows \in {output.sections[g].rows[i]} :
              /\ rows[1].cols["Notes"].s # <<>>
              /\ rows[3].cols["Notes"] = NoneVal
              /\ rows[3].cols["Total HPPD"].n > 0
              /\ rows[3].cols["CNA Agency %"].n # 0

\* ------------------------------------------------------------------ C12
\* C12: whenever the census cell E27 is blank, None, a text or a number <= 0,
\* process_template_file returns a skip record and no entry, whatever the other
\* fields hold; so the census of every entry it returns is positive.
C12_CensusRejected ==
    (call = "process_template_file" /\ returned) =>
        /\ (arg.f.E27.t # "num" \/ arg.f.E27.n <= 0) =>
               (ret.kind = "skip" /\ ret.entry = <<>>)
        /\ ret.kind = "entry" => ret.entry.census > 0

\* a template whose every other field is valid for the target date, with a
\* blank census cell: skipped for its census
C12_Witness ==
    /\ call = "process_template_file" /\ returned
    /\ is_valid_file(arg.f.filename, "xlsx") /\ arg.f.opens
    /\ arg.tdate = D1 /\ arg.f.B11 = D1
    /\ DayOf(D1) \in arg.f.sheetnames
    /\ Truthy(arg.f.D3)
    /\ arg.f.E27 = NoneVal
    /\ ret = Skip(arg.f.filename, "Invalid census value")

\* ------------------------------------------------------------------ SpecHours
\* step 6 of process_report_file applied to a Sheet3 of up to MaxSheetRows rows
\* from row index 9 on (row 13, the fixed-coordinate total, is the fifth)
MaxSheetRows == 5

\* rows without a code, with the role codes and with the total label; hours
\* zero, positive and negative
SheetRowKinds ==
    { [C |-> <<>>, H |-> Num(0)],
      [C |-> <<>>, H |-> Num(8)],
      [C |-> Code3210, H |-> Num(8)],
      [C |-> Code3215, H |-> Num(0)],
      [C |-> Code3225, H |-> Num(-8)],
      [C |-> GrandTotal, H |-> Num(20)] }

InitHours ==
    /\ call = "actual_hours"
    /\ arg \in SeqsUpTo(SheetRowKinds, MaxSheetRows)
    /\ returned = FALSE
    /\ ret = <<>>
    /\ RunIdle

ApplyHours ==
    /\ call = "actual_hours"
    /\ ~returned
    /\ returned' = TRUE
    /\ ret' = ActualHours(arg)
    /\ UNCHANGED <<call, arg, inputVars, processVars, appVars, runVars, poolVars>>

NextHours == ApplyHours

SpecHours == InitHours /\ [][NextHours]_vars

\* ------------------------------------------------------------------ C13
\* the value of the cell (r, 7) of Sheet3, 0 when the sheet has no row r
FixedCell(rows3, r) ==
    IF Sheet3Has(rows3, r) THEN safe_float_conversion(Sheet3Row(rows3, r).H) ELSE 0

ReportedAt(p) ==
    CASE p = "start" -> <<>>
      [] p = "templates" -> <<5, 15>>
      [] p = "collect" -> <<5, 15, 30>>
      [] p = "reports" -> <<5, 15, 30, 40, 50>>
      [] p = "matching" -> <<5, 15, 30, 40, 50, 65>>
      [] p \in {"save", "saved"} -> <<5, 15, 30, 40, 50, 65, 80>>
      [] p = "done" -> <<5, 15, 30, 40, 50, 65, 80, 100>>

\* C14: the callback is invoked once at each checkpoint, in the order file
\* collection (5), template processing (15), map building (30), report
\* collection (40) and processing (50), matching (65), Excel generation (80),
\* completion (100): at every point of a run the percentages reported so far are
\* those of the checkpoints passed, strictly increasing; a run that returns has
\* reported all eight, ending at 100; 100 is reported only after the workbook
\* was saved, and never in a run that raises.
C14_ProgressCheckpoints ==
    /\ pc # "raised" => progress_log = ReportedAt(pc)
    /\ \A i, j \in 1..Len(progress_log) : i < j => progress_log[i] < progress_log[j]
    /\ (\E i \in 1..Len(progress_log) : progress_log[i] = 100) => output.saved
    /\ pc = "raised" => \A i \in 1..Len(progress_log) : progress_log[i] # 100

\* a run that returned with result rows
C14_Witness ==
    /\ pc = "done"
    /\ results # <<>>
    /\ Len(progress_log) = 8
    /\ progress_log[8] = 100
    /\ output.saved

\* ------------------------------------------------------------------ SpecPool
\* the two ThreadPoolExecutor blocks of run_hppd_comparison_for_date, task by
\* task: executor.map submits every task at once, the workers take them in
\* submission order, the main thread takes the results in submission order, and
\* leaving the with block joins the pool.  The target date is valid, so no task
\* raises.
MaxPoolTasks == 2    \* most files in each of the two directories
MaxWorkers == 4      \* max_workers=4

PoolTemplateKinds == {TplOakHill, TplHidden}
PoolReportKinds == {RepOakHillSnf, RepOakHillPrefixed, RepHidden}

\* a task: its pool, its args tuple (file, template_map), its state ("queued",
\* "running", "logged": a report task after its debug tracking, "done") and
\* its return value
Task(pool, f, tmap) ==
    [pool |-> pool, file |-> f, tmap |-> tmap, state |-> "queued", result |-> <<>>]

Running(ts) == {i \in 1..Len(ts) : ts[i].state \in {"running", "logged"}}

AllDone(ts) == \A i \in 1..Len(ts) : ts[i].state = "done"

\* a write to the module-level comparison_debug_log: by the main thread
\* (task 0) or by the worker thread running a task
SharedWrite(by, i) == [by |-> by, task |-> i, at |-> pc, running |-> Running(tasks)]

InitPool ==
    /\ call = "none" /\ arg = <<>> /\ returned = FALSE /\ ret = <<>>
    /\ target_date = D1
    /\ templates_exists = TRUE
    /\ reports_exists = TRUE
    /\ \E nt \in 0..MaxPoolTasks : \E nr \in 0..MaxPoolTasks :
         /\ \E tf \in [1..nt -> PoolTemplateKinds] : templates_dir = Numbered(tf, 0)
         /\ \E rf \in [1..nr -> PoolReportKinds] : reports_dir = Numbered(rf, nt)
    /\ pc = "start"
    /\ template_files = <<>>
    /\ nextT = 1
    /\ template_entries = <<>>
    /\ skipped_templates = <<>>
    /\ template_map = <<>>
    /\ report_files = <<>>
    /\ nextR = 1
    /\ report_data_list = <<>>
    /\ skipped_reports = <<>>
    /\ nextM = 1
    /\ results = <<>>
    /\ wb = NoWorkbook
    /\ comparison_debug_log = <<>>
    /\ progress_log = <<>>
    /\ output = NoWorkbook
    /\ error = "none"
    /\ provenance = <<>>
    /\ tasks = <<>>
    /\ shared_writes = <<>>
    /\ invocation = 1
    /\ progress_store = <<>>
    /\ jobs = <<>>

\* the walk of templates_folder and executor.map(process_template_file, ...)
PoolSubmitTemplates ==
    /\ pc = "start"
    /\ \E files \in {Walk(templates_exists, templates_dir)} :
          /\ template_files' = files
          /\ tasks' = [i \in 1..Len(files) |-> Task("template", files[i], <<>>)]
    /\ pc' = "templates"
    /\ UNCHANGED <<fnVars, inputVars, processVars, appVars, nextT, template_entries, skipped_templates,
                   template_map, report_files, nextR, report_data_list,
                   skipped_reports, nextM, results, wb, comparison_debug_log,
                   progress_log, output, error, provenance, shared_writes>>

\* a free worker takes the oldest queued task and runs the function on its
\* args; the extraction itself reads and writes only the task's own data
TaskStart ==
    /\ \E i \in 1..Len(tasks) :
          /\ tasks[i].state = "queued"
          /\ \A j \in 1..(i - 1) : tasks[j].state # "queued"
          /\ Cardinality(Running(tasks)) < MaxWorkers
          /\ \E r \in { IF tasks[i].pool = "template"
                        THEN process_template_file(tasks[i].file, target_date)
                        ELSE process_report_file(tasks[i].file, target_date,
                                                 tasks[i].tmap) } :
                tasks' = [tasks EXCEPT ![i].state = "running", ![i].result = r]
    /\ UNCHANGED <<fnVars, inputVars, processVars, appVars, runVars, shared_writes>>

\* the debug tracking of a report task that matched a template: it writes the
\* module-level comparison_debug_log from its worker thread
TaskLog ==
    /\ \E i \in 1..Len(tasks) :
          /\ tasks[i].state = "running"
          /\ tasks[i].pool = "report"
          /\ tasks[i].result.kind = "entry"
          /\ comparison_debug_log' =
                 ReportLogUpdate(comparison_debug_log,
                                 tasks[i].result.entry.matched_template_name)
          /\ shared_writes' = Append(shared_writes, SharedWrite("worker", i))
          /\ tasks' = [tasks EXCEPT ![i].state = "logged"]
    /\ UNCHANGED <<fnVars, inputVars, processVars, appVars, pc, template_files, nextT, template_entries,
                   skipped_templates, template_map, report_files, nextR,
                   report_data_list, skipped_reports, nextM, results, wb,
                   progress_log, output, error, provenance>>

\* the task returns and its result becomes available
TaskReturn ==
    /\ \E i \in 1..Len(tasks) :
          /\ \/ tasks[i].state = "logged"
             \/ /\ tasks[i].state = "running"
                /\ ~(tasks[i].pool = "report" /\ tasks[i].result.kind = "entry")
          /\ tasks' = [tasks EXCEPT ![i].state = "done"]
    /\ UNCHANGED <<fnVars, inputVars, processVars, appVars, runVars, shared_writes>>

\* the main thread takes the next result of the template pool (it waits until
\* that task is done) and, for an entry, writes comparison_debug_log
PoolConsumeTemplate ==
    /\ pc = "templates"
    /\ nextT <= Len(template_files)
    /\ tasks[nextT].state = "done"
    /\ \E r \in {tasks[nextT].result} :
           IF r.kind = "entry"
           THEN /\ template_entries' = Append(template_entries, r.entry)
                /\ comparison_debug_log' =
                       LogPut(comparison_debug_log, r.entry.facility, TemplateLogEntry(r.entry))
                /\ shared_writes' = Append(shared_writes, SharedWrite("main", 0))
                /\ UNCHANGED skipped_templates
           ELSE /\ skipped_templates' = Append(skipped_templates, r.skip)
                /\ UNCHANGED <<template_entries, comparison_debug_log, shared_writes>>
    /\ nextT' = nextT + 1
    /\ UNCHANGED <<fnVars, inputVars, processVars, appVars, pc, template_files, template_map, report_files,
                   nextR, report_data_list, skipped_reports, nextM, results, wb,
                   progress_log, output, error, provenance, tasks>>

\* the with block of the template pool is left (shutdown waits for its tasks)
\* and the name map is built
PoolBuildMap ==
    /\ pc = "templates"
    /\ nextT > Len(template_files)
    /\ AllDone(tasks)
    /\ template_map' = build_template_name_map(template_entries)
    /\ pc' = "collect"
    /\ UNCHANGED <<fnVars, inputVars, processVars, appVars, poolVars, template_files, nextT, template_entries,
                   skipped_templates, report_files, nextR, report_data_list,
                   skipped_reports, nextM, results, wb, comparison_debug_log,
                   progress_log, output, error, provenance>>

\* a variant of PoolSubmitReports that does not wait for the template phase
PoolSubmitReportsEarly ==
    /\ pc = "templates"
    /\ \E files \in {Walk(reports_exists, reports_dir)} :
          /\ report_files' = files
          /\ tasks' = tasks \o [i \in 1..Len(files) |-> Task("report", files[i], template_map)]
    /\ pc' = "reports"
    /\ UNCHANGED <<fnVars, inputVars, processVars, appVars, template_files, nextT, template_entries,
                   skipped_templates, template_map, nextR, report_data_list,
                   skipped_reports, nextM, results, wb, comparison_debug_log,
                   progress_log, output, error, provenance, shared_writes>>

\* the walk of reports_folder and ex.map(process_report_file, ...): every args
\* tuple holds the template_map built before
PoolSubmitReports ==
    /\ pc = "collect"
    /\ \E files \in {Walk(reports_exists, reports_dir)} :
          /\ report_files' = files
          /\ tasks' = tasks \o [i \in 1..Len(files) |-> Task("report", files[i], template_map)]
    /\ pc' = "reports"
    /\ UNCHANGED <<fnVars, inputVars, processVars, appVars, template_files, nextT, template_entries,
                   skipped_templates, template_map, nextR, report_data_list,
                   skipped_reports, nextM, results, wb, comparison_debug_log,
                   progress_log, output, error, provenance, shared_writes>>

\* the main thread takes the next result of the report pool
PoolConsumeReport ==
    /\ pc = "reports"
    /\ nextR <= Len(report_files)
    /\ tasks[Len(template_files) + nextR].state = "done"
    /\ \E r \in {tasks[Len(template_files) + nextR].result} :
           IF r.kind = "entry"
           THEN /\ report_data_list' = Append(report_data_list, r.entry)
                /\ UNCHANGED skipped_reports
           ELSE /\ skipped_reports' = Append(skipped_reports, r.skip)
                /\ UNCHANGED report_data_list
    /\ nextR' = nextR + 1
    /\ UNCHANGED <<fnVars, inputVars, processVars, appVars, poolVars, pc, template_files, nextT,
                   template_entries, skipped_templates, template_map, report_files,
                   nextM, results, wb, comparison_debug_log, progress_log, output,
                   error, provenance>>

\* the with block of the report pool is left and the matching loop begins
PoolStartMatching ==
    /\ pc = "reports"
    /\ nextR > Len(report_files)
    /\ AllDone(tasks)
    /\ results' = <<>>
    /\ pc' = "matching"
    /\ UNCHANGED <<fnVars, inputVars, processVars, appVars, poolVars, template_files, nextT, template_entries,
                   skipped_templates, template_map, report_files, nextR,
                   report_data_list, skipped_reports, nextM, wb,
                   comparison_debug_log, progress_log, output, error, provenance>>

\* one turn of the matching loop, on the main thread: for a matched report it
\* writes comparison_debug_log
PoolMatchReport ==
    /\ pc = "matching"
    /\ nextM <= Len(report_data_list)
    /\ \E report_data \in {report_data_list[nextM]} :
       \E candidates \in {Candidates(template_entries, report_data)} :
           IF candidates = <<>>
           THEN /\ skipped_reports' =
                       Append(skipped_reports, <<report_data.filename, "No matched date">>)
                /\ UNCHANGED <<results, comparison_debug_log, shared_writes>>
           ELSE \E t \in {candidates[1]} :
                /\ comparison_debug_log' =
                       [comparison_debug_log EXCEPT ![t.facility].Compared = TRUE]
                /\ shared_writes' = Append(shared_writes, SharedWrite("main", 0))
                /\ results' = DictPut(results,
                                  [key |-> <<t.facility, report_data.report_date>>,
                                   rows |-> <<ProjectedRow(t, report_data),
                                              ActualRow(t, report_data)>>])
                /\ UNCHANGED skipped_reports
    /\ nextM' = nextM + 1
    /\ UNCHANGED <<fnVars, inputVars, processVars, appVars, pc, template_files, nextT, template_entries,
                   skipped_templates, template_map, report_files, nextR,
                   report_data_list, wb, progress_log, output, error, provenance,
                   tasks>>

\* phase 5 on the main thread: the workbook is built, saved and returned
PoolWrite ==
    /\ pc = "matching"
    /\ nextM > Len(report_data_list)
    /\ wb' = BuildWorkbook(results, skipped_templates, skipped_reports, comparison_debug_log)
    /\ output' = [wb' EXCEPT !.saved = TRUE]
    /\ pc' = "done"
    /\ UNCHANGED <<fnVars, inputVars, processVars, appVars, poolVars, template_files, nextT, template_entries,
                   skipped_templates, template_map, report_files, nextR,
                   report_data_list, skipped_reports, nextM, results,
                   comparison_debug_log, progress_log, error, provenance>>

NextPool ==
    \/ PoolSubmitTemplates
    \/ TaskStart
    \/ TaskLog
    \/ TaskReturn
    \/ PoolConsumeTemplate
    \/ PoolBuildMap
    \/ PoolSubmitReports
    \/ PoolConsumeReport
    \/ PoolStartMatching
    \/ PoolMatchReport
    \/ PoolWrite

SpecPool == InitPool /\ [][NextPool]_vars

\* ------------------------------------------------------------------ C15
\* C15: no pool task writes shared state: every write to the module-level
\* comparison_debug_log is made by the main thread.
C15_TasksWriteNothingShared ==
    \A i \in 1..Len(shared_writes) : shared_writes[i].by = "main"

\* ------------------------------------------------------------------ C16
\* C16: the template name map is built only after every template task is done;
\* every report task was submitted after that, with the built map in its args;
\* the matching loop and the report writing start only after every report task
\* is done; and every write they make is made by the main thread with no task
\* running.
C16_PhaseBarrier ==
    /\ pc \notin {"start", "templates"} =>
          /\ \A i \in 1..Len(template_files) : tasks[i].state = "done"
          /\ Len(template_entries) + Len(skipped_templates) = Len(template_files)
          /\ template_map = build_template_name_map(template_entries)
    /\ \A i \in 1..Len(tasks) :
          tasks[i].pool = "report" =>
              /\ pc \notin {"start", "templates", "collect"}
              /\ tasks[i].tmap = template_map
    /\ pc \in {"matching", "done"} =>
          /\ AllDone(tasks)
          /\ Len(tasks) = Len(template_files) + Len(report_files)
          /\ Len(report_data_list) + Len(skipped_reports) >= Len(report_files)
    /\ \A i \in 1..Len(shared_writes) :
          shared_writes[i].at = "matching" =>
              (shared_writes[i].by = "main" /\ shared_writes[i].running = {})

\* the matching loop after two template tasks and two report tasks, both
\* reports extracted, the first one matched
C16_Witness ==
    /\ pc = "matching"
    /\ Len(template_files) = 2
    /\ Len(report_data_list) = 2
    /\ nextM = 2
    /\ \E i \in 1..Len(shared_writes) : shared_writes[i].at = "matching"

\* ------------------------------------------------------------------ SpecAgency
\* extract_agency_cna_rnlpn_from_sheet2 applied to the rows of Sheet2 from row
\* index 10 on
MaxAgencyRows == 3

AgyCna == <<" ","a","g","y","/","c","n","a">>
AgyRn == <<"8","/","A","G","Y","/","R","N">>
AgyLpn == <<"A","G","Y","/","L","P","N">>
StaffCna == <<"8","/","C","N","A">>
AgyIntern == <<"A","G","Y","/","I","N","T","E","R","N">>

\* agency headers of the three roles, a header without the agency marker, an
\* agency header whose last part holds RN inside another word, data rows with
\* numeric and with text hours, and a row with no first cell but with hours
AgencyRowKinds ==
    { [A |-> AgyCna, M |-> NoneVal],
      [A |-> AgyRn, M |-> NoneVal],
      [A |-> AgyLpn, M |-> NoneVal],
      [A |-> StaffCna, M |-> NoneVal],
      [A |-> AgyIntern, M |-> NoneVal],
      [A |-> <<"x">>, M |-> Num(8)],
      [A |-> <<"x">>, M |-> Str(<<"x">>)],
      [A |-> <<>>, M |-> Num(3)] }

InitAgency ==
    /\ call = "agency"
    /\ arg \in SeqsUpTo(AgencyRowKinds, MaxAgencyRows)
    /\ returned = FALSE
    /\ ret = <<>>
    /\ RunIdle

ApplyAgency ==
    /\ call = "agency"
    /\ ~returned
    /\ returned' = TRUE
    /\ ret' = extract_agency_cna_rnlpn_from_sheet2(arg)
    /\ UNCHANGED <<call, arg, inputVars, processVars, appVars, runVars, poolVars>>

NextAgency == ApplyAgency

SpecAgency == InitAgency /\ [][NextAgency]_vars

\* ------------------------------------------------------------------ C17
\* s ends with the token p
EndsWith(s, p) == Len(s) >= Len(p) /\ SubSeq(s, Len(s) - Len(p) + 1, Len(s)) = p

\* the role of a header as C17 states it: the header contains AGY and ends with
\* CNA, RN or LPN
ClaimedRole(header) ==
    LET h == str_upper(Strip(header))
    IN  IF ~Contains(h, <<"A","G","Y">>) THEN "none"
        ELSE IF EndsWith(h, <<"C","N","A">>) THEN "cna"
        ELSE IF EndsWith(h, <<"R","N">>) \/ EndsWith(h, <<"L","P","N">>) THEN "nurse"
        ELSE "none"

\* the accumulators as C17 states them: every non-header row adds its hours to
\* the accumulator of the role of the last header above it
RECURSIVE ClaimedScan(_, _, _, _)
ClaimedScan(rows2, i, role, acc) ==
    IF i > Len(rows2) THEN acc
    ELSE IF "/" \in Range(rows2[i].A)
    THEN ClaimedScan(rows2, i + 1, ClaimedRole(rows2[i].A), acc)
    ELSE LET hours == safe_float_conversion(rows2[i].M)
         IN  ClaimedScan(rows2, i + 1, role,
                 IF role = "cna" THEN [acc EXCEPT !.cna = @ + hours]
                 ELSE IF role = "nurse" THEN [acc EXCEPT !.rnlpn = @ + hours]
                 ELSE acc)

\* C17 as stated: the scan gives each role the hours of the non-header rows in
\* the blocks whose header contains AGY and ends with that role's token, rows
\* before the first header and in other blocks add nothing, and the agency
\* total is the sum of the two accumulators.
C17_AgencyBlockScan ==
    (call = "agency" /\ returned) =>
        LET claimed == ClaimedScan(arg, 1, "none", [cna |-> 0, rnlpn |-> 0])
        IN  /\ ret.agency_cna_hours = claimed.cna
            /\ ret.agency_rnlpn_hours = claimed.rnlpn
            /\ ret.agency_total_hours = ret.agency_cna_hours + ret.agency_rnlpn_hours

\* ------------------------------------------------------------------ C18
\* the returns of process_template_file that follow a wb.close() call: each
\* skip inside the try block, the success return and the except handler
TemplateClosingReturns ==
    { "No sheet named", "Missing facility name in D3", "Missing date in B11",
      "Invalid date format in B11", "Date mismatch", "Invalid census value",
      "Data parsing error", "entry" }

\* the returns of process_report_file that follow a close or release call on
\* the workbook: the function holds none, and no with block around the workbook
ReportClosingReturns == {}

\* where an outcome leaves its function: the reason of a skip, "entry", "raise"
ReturnSite(r) == IF r.kind = "skip" THEN r.skip[2] ELSE r.kind

\* the workbook when process_template_file returns: "unopened" when
\* load_workbook was not reached or failed, "closed" after wb.close(), else "open"
TemplateHandle(f, tdate) ==
    IF ~is_valid_file(f.filename, "xlsx") \/ ~f.opens THEN "unopened"
    ELSE IF ReturnSite(process_template_file(f, tdate)) \in TemplateClosingReturns
    THEN "closed"
    ELSE "open"

\* the workbook when process_report_file returns or raises
ReportHandle(f, tdate, tmap) ==
    IF ~is_valid_file(f.filename, "xls") \/ ~f.opens THEN "unopened"
    ELSE IF ReturnSite(process_report_file(f, tdate, tmap)) \in ReportClosingReturns
    THEN "closed"
    ELSE "open"

C19_EmptyCoreNeverMatches ==
    (/\ call = "match_report_to_template"
     /\ returned
     /\ extract_core_from_report(arg.report_name) = <<>>) => ret = None

\* ------------------------------------------------------------------ C20
\* the matching loop has passed the i-th report record
Aggregated(i) ==
    \/ pc = "matching" /\ i < nextM
    \/ pc \in {"save", "saved", "done", "raised"}

\* C20: with a non-empty valid target_date, every template entry and every
\* report record carries the target date, the matched name of every record is
\* the facility of a template entry, no report is skipped with "No matched
\* date", and every record the matching loop has passed has its row in results.
C20_NoMatchedDateSkipUnreachable ==
    (target_date # "" /\ ValidDateString(target_date)) =>
        /\ \A j \in 1..Len(template_entries) : template_entries[j].date = target_date
        /\ \A i \in 1..Len(report_data_list) :
              /\ report_data_list[i].report_date = target_date
              /\ \E j \in 1..Len(template_entries) :
                    template_entries[j].facility = report_data_list[i].matched_template_name
              /\ Aggregated(i) =>
                    \E k \in 1..Len(results) :
                        results[k].key = << report_data_list[i].matched_template_name,
                                            report_data_list[i].report_date >>
        /\ \A i \in 1..Len(skipped_reports) : skipped_reports[i][2] # "No matched date"

\* the matching loop has passed two report records under a valid target date
C20_Witness ==
    /\ target_date = D1
    /\ pc = "matching"
    /\ Len(report_data_list) = 2
    /\ nextM = 3
    /\ Len(results) >= 1

\* ------------------------------------------------------------------ SpecSeq
\* successive run_hppd_comparison_for_date calls in one process: each call has
\* its own arguments, folders and locals; the module-level
\* comparison_debug_log is created once, when the module is imported
MaxInvocations == 2
MaxSeqFiles == 1     \* most files in each folder of one call

SeqTemplateKinds == {TplOakHill, TplElmPark}
SeqReportKinds == {RepOakHillSnf}

\* the two folders of one call
SeqFolders ==
    { [t |-> Numbered(tf, 0), r |-> Numbered(rf, Len(tf))] :
        tf \in SeqsUpTo(SeqTemplateKinds, MaxSeqFiles),
        rf \in SeqsUpTo(SeqReportKinds, MaxSeqFiles) }

InitSeq ==
    /\ call = "none" /\ arg = <<>> /\ returned = FALSE /\ ret = <<>>
    /\ target_date = D1
    /\ templates_exists = TRUE
    /\ reports_exists = TRUE
    /\ \E d \in SeqFolders : templates_dir = d.t /\ reports_dir = d.r
    /\ pc = "start"
    /\ template_files = <<>>
    /\ nextT = 1
    /\ template_entries = <<>>
    /\ skipped_templates = <<>>
    /\ template_map = <<>>
    /\ report_files = <<>>
    /\ nextR = 1
    /\ report_data_list = <<>>
    /\ skipped_reports = <<>>
    /\ nextM = 1
    /\ results = <<>>
    /\ wb = NoWorkbook
    /\ comparison_debug_log = <<>>
    /\ progress_log = <<>>
    /\ output = NoWorkbook
    /\ error = "none"
    /\ provenance = <<>>
    /\ tasks = <<>>
    /\ shared_writes = <<>>
    /\ invocation = 1
    /\ progress_store = <<>>
    /\ jobs = <<>>

\* the next call, after the previous one returned or raised: new arguments and
\* folders, fresh locals; nothing in the function resets comparison_debug_log
Invoke ==
    /\ pc \in {"done", "raised"}
    /\ invocation < MaxInvocations
    /\ invocation' = invocation + 1
    /\ target_date' = D1
    /\ \E d \in SeqFolders : templates_dir' = d.t /\ reports_dir' = d.r
    /\ pc' = "start"
    /\ template_files' = <<>>
    /\ nextT' = 1
    /\ template_entries' = <<>>
    /\ skipped_templates' = <<>>
    /\ template_map' = <<>>
    /\ report_files' = <<>>
    /\ nextR' = 1
    /\ report_data_list' = <<>>
    /\ skipped_reports' = <<>>
    /\ nextM' = 1
    /\ results' = <<>>
    /\ wb' = NoWorkbook
    /\ progress_log' = <<>>
    /\ output' = NoWorkbook
    /\ error' = "none"
    /\ provenance' = <<>>
    /\ UNCHANGED <<fnVars, poolVars, appVars, templates_exists, reports_exists,
                   comparison_debug_log>>

NextSeq ==
    \/ CollectTemplates
    \/ ProcessTemplate
    \/ BuildMap
    \/ CollectReports
    \/ ProcessReport
    \/ StartMatching
    \/ MatchReport
    \/ GenerateExcel
    \/ SaveWorkbook
    \/ Complete
    \/ SaveFails
    \/ Invoke

SpecSeq == InitSeq /\ [][NextSeq]_vars

\* ------------------------------------------------------------------ C21
\* C21 as stated: the saved output of an invocation lists, in its "Comparison
\* Debug Log" sheet, only facilities of that invocation's own template entries,
\* none that comes only from an earlier invocation.
C21_InvocationsIndependent ==
    output.saved =>
        \A facility \in DOMAIN output.debug_sheet :
            \E j \in 1..Len(template_entries) :
                template_entries[j].facility = facility

\* ------------------------------------------------------------------ C23
\* C23: for every raw name and every name map, the result of
\* match_report_to_template is None or a value of the name map, which is the
\* facility of one of the template entries the map was built from; so the
\* result is the raw name, the core or a key only when a value of the map is
\* that same string.
C23_ResultIsMapValue ==
    (call = "match_report_to_template" /\ returned) =>
        LET m == build_template_name_map(arg.entries)
        IN  \/ ret = None
            \/ /\ \E k \in DOMAIN m : ret = m[k]
               /\ \E i \in 1..Len(arg.entries) : ret = arg.entries[i].facility

\* a match whose result is a facility that is neither the raw name, nor the
\* core, nor any key of the map
C23_Witness ==
    /\ call = "match_report_to_template" /\ returned
    /\ ret # None
    /\ ret # arg.report_name
    /\ ret # extract_core_from_report(arg.report_name)
    /\ ret \notin DOMAIN build_template_name_map(arg.entries)

\* ------------------------------------------------------------------ SpecApp
\* app.py: POST / starts a process_files thread per accepted request; the
\* threads and the request handlers share progress_store
MaxJobs == 2

\* the progress_id form values: jobs with different ids share no entry, so the
\* jobs of one id are the general case
ProgressIds == {"p1"}

\* the percentages run_hppd_comparison_for_date hands to progress_callback
Checkpoints == <<5, 15, 30, 40, 50, 65, 80, 100>>

NoPath == <<>>    \* file_path None
PermanentPath(progress_id) == <<"/tmp/hppd_output_", progress_id, ".xlsx">>

StoreEntry(percent, status, completed, file_path) ==
    [percent |-> percent, status |-> status, completed |-> completed,
     file_path |-> file_path]

\* get_progress(progress_id)
get_progress(progress_id) ==
    IF progress_id \in DOMAIN progress_store
    THEN progress_store[progress_id]
    ELSE StoreEntry(0, "Not started", FALSE, NoPath)

\* job j assigns e to progress_store[progress_id]; last and wrote_completed are
\* the history of its writes
JobWrites(j, e, next_pc, path) ==
    /\ progress_store' = LogPut(progress_store, jobs[j].id, e)
    /\ jobs' = [jobs EXCEPT ![j].pc = next_pc,
                            ![j].path = path,
                            ![j].last = e,
                            ![j].wrote_completed = @ \/ e.completed]

\* a POST to / with both zips, a date that parses and a progress_id (any other
\* POST returns 400 or 500 before it touches progress_store): the entry is
\* initialized and the thread started
Post ==
    /\ Len(jobs) < MaxJobs
    /\ \E progress_id \in ProgressIds :
          /\ progress_store' =
                 LogPut(progress_store, progress_id,
                        StoreEntry(0, "Initializing...", FALSE, NoPath))
          /\ jobs' = Append(jobs, [ id |-> progress_id, pc |-> "start", reported |-> 0,
                                    path |-> "running",
                                    last |-> StoreEntry(0, "Initializing...", FALSE, NoPath),
                                    wrote_completed |-> FALSE ])
    /\ UNCHANGED <<fnVars, inputVars, runVars, poolVars, processVars>>

\* a variant of JobSetup whose template zip failure returns without writing
\* progress_store
JobSetupSilent(j) ==
    /\ jobs[j].pc = "start"
    /\ \/ /\ jobs' = [jobs EXCEPT ![j].pc = "running"]
          /\ UNCHANGED progress_store
       \/ JobWrites(j, StoreEntry(0, "Unexpected error", TRUE, NoPath),
                    "finished", "unexpected_error")
       \/ /\ jobs' = [jobs EXCEPT ![j].pc = "finished", ![j].path = "template_zip_error"]
          /\ UNCHANGED progress_store
       \/ JobWrites(j, StoreEntry(0, "Error extracting report zip", TRUE, NoPath),
                    "finished", "report_zip_error")
    /\ UNCHANGED <<fnVars, inputVars, runVars, poolVars, processVars>>

\* the start of process_files up to the call of run_hppd_comparison_for_date,
\* all of it on the thread's own temporary directory: the directories are made
\* (an exception there reaches the outer except), then the template zip and
\* the report zip are extracted; when an extraction raises, its error entry is
\* written and the function returns
JobSetup(j) ==
    /\ jobs[j].pc = "start"
    /\ \/ /\ jobs' = [jobs EXCEPT ![j].pc = "running"]
          /\ UNCHANGED progress_store
       \/ JobWrites(j, StoreEntry(0, "Unexpected error", TRUE, NoPath),
                    "finished", "unexpected_error")
       \/ JobWrites(j, StoreEntry(0, "Error extracting template zip", TRUE, NoPath),
                    "finished", "template_zip_error")
       \/ JobWrites(j, StoreEntry(0, "Error extracting report zip", TRUE, NoPath),
                    "finished", "report_zip_error")
    /\ UNCHANGED <<fnVars, inputVars, runVars, poolVars, processVars>>

\* update_progress(pct, msg), called by run_hppd_comparison_for_date at its
\* next checkpoint
JobProgress(j) ==
    /\ jobs[j].pc = "running"
    /\ jobs[j].reported < Len(Checkpoints)
    /\ progress_store' =
           LogPut(progress_store, jobs[j].id,
                  StoreEntry(Checkpoints[jobs[j].reported + 1], "progress", FALSE, NoPath))
    /\ jobs' = [jobs EXCEPT ![j].reported = @ + 1,
                            ![j].last = StoreEntry(Checkpoints[jobs[j].reported + 1],
                                                   "progress", FALSE, NoPath)]
    /\ UNCHANGED <<fnVars, inputVars, runVars, poolVars, processVars>>

\* run_hppd_comparison_for_date raises before it reports 100: the error entry
\* is written by the inner except
JobRunRaises(j) ==
    /\ jobs[j].pc = "running"
    /\ jobs[j].reported < Len(Checkpoints)
    /\ JobWrites(j, StoreEntry(0, "Error processing files", TRUE, NoPath),
                 "finished", "processing_error")
    /\ UNCHANGED <<fnVars, inputVars, runVars, poolVars, processVars>>

\* run_hppd_comparison_for_date returns output_path after it reported 100;
\* then shutil.copy2 to the permanent path and the success entry, or the copy
\* raises and the inner except writes the error entry
JobCopy(j) ==
    /\ jobs[j].pc = "running"
    /\ jobs[j].reported = Len(Checkpoints)
    /\ \/ JobWrites(j, StoreEntry(100, "Analysis complete", TRUE, PermanentPath(jobs[j].id)),
                    "cleanup", "success")
       \/ JobWrites(j, StoreEntry(0, "Error processing files", TRUE, NoPath),
                    "finished", "processing_error")
    /\ UNCHANGED <<fnVars, inputVars, runVars, poolVars, processVars>>

\* the with block is left after the success entry: the temporary directory is
\* removed, or its removal raises and the outer except writes its entry over
\* the success entry (after an error entry the outer except would only replace
\* one error entry by another: those paths end with their error entry)
JobCleanup(j) ==
    /\ jobs[j].pc = "cleanup"
    /\ \/ /\ jobs' = [jobs EXCEPT ![j].pc = "finished"]
          /\ UNCHANGED progress_store
       \/ JobWrites(j, StoreEntry(0, "Unexpected error", TRUE, NoPath),
                    "finished", "unexpected_error")
    /\ UNCHANGED <<fnVars, inputVars, runVars, poolVars, processVars>>

\* one step of the thread of job j
JobStep(j) ==
    \/ JobSetup(j)
    \/ JobProgress(j)
    \/ JobRunRaises(j)
    \/ JobCopy(j)
    \/ JobCleanup(j)

InitApp ==
    /\ call = "none" /\ arg = <<>> /\ returned = FALSE /\ ret = <<>>
    /\ RunIdle

NextApp ==
    \/ Post
    \/ \E j \in 1..Len(jobs) : JobSetup(j)
    \/ \E j \in 1..Len(jobs) : JobProgress(j)
    \/ \E j \in 1..Len(jobs) : JobRunRaises(j)
    \/ \E j \in 1..Len(jobs) : JobCopy(j)
    \/ \E j \in 1..Len(jobs) : JobCleanup(j)

SpecApp == InitApp /\ [][NextApp]_vars

\* every started thread is scheduled again and again until it ends
SpecAppFair == SpecApp /\ \A j \in 1..MaxJobs : WF_vars(j <= Len(jobs) /\ JobStep(j))

\* ------------------------------------------------------------------ C22
\* what a job has written so far, and what a client reads, at one state
JobsSafe ==
    /\ \A j \in 1..Len(jobs) :
          LET job == jobs[j]
          IN  /\ job.pc = "finished" => job.wrote_completed
              /\ job.wrote_completed => (job.last.completed /\ job.path # "running")
              /\ job.last.file_path # NoPath => job.path = "success"
              /\ job.path = "success" =>
                     job.last = StoreEntry(100, "Analysis complete", TRUE,
                                           PermanentPath(job.id))
              /\ job.path \notin {"running", "success"} =>
                     (job.last.completed /\ job.last.file_path = NoPath)
    /\ \A progress_id \in ProgressIds :
          LET e == get_progress(progress_id)
          IN  e.file_path # NoPath =>
                  /\ e.percent = 100
                  /\ e.completed
                  /\ \E j \in 1..Len(jobs) :
                        jobs[j].id = progress_id /\ jobs[j].path = "success" /\ jobs[j].last = e

\* C22: every started job eventually writes a progress_store entry with
\* completed = true, whichever path it takes (template zip error, report zip
\* error, exception of the run or of the copy, success); an entry has a
\* non-null file_path only when written on the success path, with percent =
\* 100, and the entry of every failure path has file_path null.
C22_JobsComplete ==
    /\ []JobsSafe
    /\ \A j \in 1..MaxJobs :
          (j <= Len(jobs)) ~> (j <= Len(jobs) /\ jobs[j].pc = "finished"
                                              /\ jobs[j].wrote_completed)

\* two jobs have ended, the first on the template zip error path, the second
\* on the success path with its download ready
C22_Witness ==
    /\ Len(jobs) = 2
    /\ jobs[1].pc = "finished" /\ jobs[1].path = "template_zip_error"
    /\ jobs[1].last.completed /\ jobs[1].last.file_path = NoPath
    /\ jobs[2].pc = "finished" /\ jobs[2].path = "success"
    /\ get_progress(jobs[2].id) =
           StoreEntry(100, "Analysis complete", TRUE, PermanentPath(jobs[2].id))

====
